---- MODULE Spec2Model ----
(***************************************************************************)
(* A model of the finhub compliance engine                                 *)
(* (backend/app/services/compliance_engine.py, llm_service.py,             *)
(* pipelines/compliance_pipeline.py).                                      *)
(*                                                                         *)
(* Specifications:                                                         *)
(*   SpecAssess    the gather of per-rule assessment tasks of one rule-set *)
(*                 (semaphore, evidence lookup, provider retry loop), one  *)
(*                 action per stretch of code between suspension points    *)
(*   SpecPlanner   _generate_compliance_queries on every provider reply    *)
(*   SpecRetrieve  _retrieve_rules_iteratively on every index and failure  *)
(*   SpecScore     the Phase 5 tally and score on every verdict multiset   *)
(*   Spec          CompliancePipeline.run around run_compliance_check,     *)
(*                 one action per phase and per pass of the rule-set loop  *)
(***************************************************************************)
EXTENDS Integers, Sequences, FiniteSets, TLC

VARIABLES
    \* ---- SpecAssess: one rule-set's gather (compliance_engine.py 199-221)
    rules_to_check,   \* the rules submitted, in submission order
    sem_value,        \* asyncio.Semaphore(_MAX_CONCURRENT)._value
    task_pc,          \* per task: where its coroutine is suspended
    task_attempt,     \* per task: `attempt` of the retry loop
    task_calls,       \* per task: number of self._llm.ainvoke calls made
    task_reply,       \* per task: what the last ainvoke did
    task_out,         \* per task: what gather receives for it
    gather_pc,        \* "gathering" until gather returns, then "collected"
    gather_results,   \* all_results after the `for r in results` loop
    \* ---- SpecScore: Phase 5 (compliance_engine.py 228-285)
    score_pc,         \* "input" before the synthesis, "done" after
    score_in,         \* the numbers of results per verdict that were fed in
    score_results,    \* all_results
    score_report,     \* the ComplianceReport built
    \* ---- SpecPlanner: Phase 2 (compliance_engine.py 452-508)
    plan_pc,          \* "input" before the call, "done" after
    plan_framework,   \* the rule-set name
    plan_reply,       \* what self.llm.generate_text did
    plan_queries,     \* the list returned
    \* ---- SpecRetrieve: Phase 3 (compliance_engine.py 569-634)
    retr_pc,          \* "input" before the call, "done" after
    retr_framework,   \* the rule-set name
    retr_corpus,      \* the passages the collection holds
    retr_queries,     \* the queries, each with what its calls will do
    retr_out,         \* what the call returned or that it raised
    \* ---- Spec: whole runs through CompliancePipeline.run
    documents,            \* the "documents" store
    compliance_reports,   \* the "compliance_reports" store, in insert order
    collections,          \* the rule index: collection name -> passages
    pc,                   \* where the run in progress stands
    document_id,          \* the run's document id
    frameworks,           \* the run's rule-set names
    sections,             \* the run's section filter ({} for none)
    report,               \* what run_compliance_check returned
    doc_text_sections,    \* the section names left after the filter
    report_id,            \* the run's report id
    fw_idx,               \* position in the loop over frameworks (from 1)
    all_results,          \* the results gathered so far
    retrieved_total,      \* history: rules retrieved in the run so far
    failure,              \* history: what made the run fail, or None
    outcome,              \* what the last finished run gave its caller
    runs,                 \* number of runs started
    progress,             \* history: the progress callback's calls
    at_start,             \* history: the stores when the last run began
    \* ---- SpecVerdict: the result built from one parsed reply
    \*      (compliance_engine.py 711-735)
    verdict_pc,       \* "input" before the result is built, "done" after
    verdict_reply,    \* the dict assess_compliance_cot returned
    verdict_out,      \* the ComplianceCheckResult, or the exception
    \* ---- SpecOrder: the loop over rule-sets with its gathers
    \*      (compliance_engine.py 147-226)
    ord_pc,           \* "retrieve", "gather" or "done"
    ord_frameworks,   \* the rule-set names requested
    ord_idx,          \* position in the loop over frameworks (from 1)
    ord_rules,        \* rules_to_check of the current rule-set
    ord_out,          \* per task: its outcome, or Pending
    ord_completed,    \* history: the tasks in the order they completed
    ord_results,      \* all_results
    ord_log,          \* history: per gathered rule-set, what was submitted
    \* ---- SpecShared: two runs at once on the one engine instance
    \*      (main.py 199-211, compliance_engine.py 109-116, 665-675)
    _source_file,     \* the engine attribute self._source_file
    shr_pc,           \* per run: "start", "assess" or "done"
    shr_left,         \* per run: evidence lookups still to come
    shr_lookups,      \* per run: the source_file values its lookups used
    \* CompliancePipeline.run_batch
    bat_pc,           \* "loop" | "returned"
    document_ids,     \* the argument: the ids to validate
    bat_i,            \* position of the for loop in document_ids
    report_ids,       \* local list: ids of the reports of the runs that returned
    errors,           \* local list: {"document_id", "error"} of the runs that raised
    bat_out,          \* the dict run_batch returns
    bat_log,          \* history: the calls of self.run, in the order made
    \* ComplianceChunker.chunk_processed_document
    chk_pc,           \* "loop" | "done"
    chk_doc,          \* the argument doc: document_id and elements
    _chunk_size,      \* self._chunk_size
    _chunk_overlap,   \* self._chunk_overlap
    chk_i,            \* position of the for loop in doc.elements
    chunks,           \* local list: the chunks built so far
    section_path,     \* local list: the running section path
    current_header,   \* local: text of the last Title or Header
    chk_call,         \* 1 during the first call on doc, 2 during the second
    chk_first,        \* what the first call returned
    \* _simple_split, one loop iteration at a time
    spl_pc,           \* "call" | "loop" | "done"
    spl_text,         \* the argument text
    spl_size,         \* the argument size
    spl_overlap,      \* the argument overlap
    spl_start,        \* local start
    spl_chunks,       \* local list chunks; each piece with the slice it is
    \* one pass of the loop over rule-sets with a long retrieval output
    cap_pc,           \* "retrieved" | "gather" | "done"
    retrieved_rules,  \* local: what _retrieve_rules_iteratively returned
    cap_rules,        \* local rules_to_check
    cap_results,      \* the outcomes asyncio.gather lists, task by task
    cap_all,          \* local all_results (the rule ids of its entries)
    total_rules_checked   \* the report's field

assessVars == <<rules_to_check, sem_value, task_pc, task_attempt, task_calls,
                task_reply, task_out, gather_pc, gather_results>>

scoreVars == <<score_pc, score_in, score_results, score_report>>

planVars == <<plan_pc, plan_framework, plan_reply, plan_queries>>

retrVars == <<retr_pc, retr_framework, retr_corpus, retr_queries, retr_out>>

runVars ==
    <<documents, compliance_reports, collections, pc, document_id,
      frameworks, sections, report, doc_text_sections, report_id, fw_idx,
      all_results, retrieved_total, failure, outcome, runs, progress,
      at_start>>

verdictVars == <<verdict_pc, verdict_reply, verdict_out>>

\* the variables of the specifications of single functions added later
orderVars == <<ord_pc, ord_frameworks, ord_idx, ord_rules, ord_out,
               ord_completed, ord_results, ord_log>>

sharedVars == <<_source_file, shr_pc, shr_left, shr_lookups>>

batchVars == <<bat_pc, document_ids, bat_i, report_ids, errors, bat_out,
               bat_log>>

chunkVars == <<chk_pc, chk_doc, _chunk_size, _chunk_overlap, chk_i, chunks,
               section_path, current_header, chk_call, chk_first>>

splitVars == <<spl_pc, spl_text, spl_size, spl_overlap, spl_start,
               spl_chunks>>

capVars == <<cap_pc, retrieved_rules, cap_rules, cap_results, cap_all,
             total_rules_checked>>

moreVars == <<batchVars, chunkVars, splitVars, capVars>>

laterVars == <<verdictVars, orderVars, sharedVars, moreVars>>

vars == <<assessVars, scoreVars, planVars, retrVars, runVars, laterVars>>

(***************************************************************************)
(* Bounds of the model                                                     *)
(***************************************************************************)
MaxRules == 3
MaxCount == 10
MaxOther == 5
MaxEntries == 2
MaxQueries == 2
MaxRuns == 1
MaxConfSteps == 6
MaxLookups == 3
MaxBatch == 3
MaxElements == 3
MaxTextLen == 7
MaxSplitSize == 3
MaxRetrieved == 17

(***************************************************************************)
(* Program constants                                                       *)
(***************************************************************************)
_MAX_CONCURRENT == 2
_MAX_RULES_PER_FRAMEWORK == 15
max_retries == 4
_TOP_K_PER_QUERY == 8

None == "None"

Min(a, b) == IF a <= b THEN a ELSE b
Max(a, b) == IF a >= b THEN a ELSE b

(***************************************************************************)
(* The five verdicts (models/compliance.py ComplianceStatus)               *)
(***************************************************************************)
ComplianceStatus ==
    {"COMPLIANT", "NON_COMPLIANT", "PARTIALLY_COMPLIANT", "NOT_APPLICABLE",
     "UNABLE_TO_DETERMINE"}

(***************************************************************************)
(* Provider replies.  A reply text is modelled by how it is wrapped and by *)
(* the JSON value it carries:                                              *)
(*   wrap  "plain"  the text is the JSON value itself                      *)
(*         "fenced" the value inside a ``` code fence                      *)
(*         "prose"  the value inside commentary                            *)
(*   json  [t |-> "garbage"]  no JSON at all                               *)
(*         [t |-> "list"]     valid JSON that is not an object             *)
(*         [t |-> "obj", status, confidence]  a JSON object                *)
(* A status is absent, null, a number (a truthy non-string) or a string,   *)
(* written as its upper-cased stripped name plus whether the text was in   *)
(* lower case and padded with blanks.  A confidence is absent, null, a     *)
(* word (a non-numeric string) or a number, in thousandths.                *)
(***************************************************************************)
StatusAbsent == [k |-> "absent", name |-> "", lower |-> FALSE, padded |-> FALSE]
StatusNull == [k |-> "null", name |-> "", lower |-> FALSE, padded |-> FALSE]
StatusNumber == [k |-> "number", name |-> "", lower |-> FALSE, padded |-> FALSE]
Str(name, lower, padded) ==
    [k |-> "str", name |-> name, lower |-> lower, padded |-> padded]

ConfAbsent == [k |-> "absent", v |-> 0]
ConfNull == [k |-> "null", v |-> 0]
ConfWord == [k |-> "word", v |-> 0]
Num(v) == [k |-> "num", v |-> v]

Garbage == [t |-> "garbage", status |-> StatusAbsent, confidence |-> ConfAbsent]
JsonList == [t |-> "list", status |-> StatusAbsent, confidence |-> ConfAbsent]
Obj(s, c) == [t |-> "obj", status |-> s, confidence |-> c]

Reply(wrap, json) == [wrap |-> wrap, json |-> json]

\* llm_service.py 390-397, 240-247, 250-257: the fallback dicts
FallbackDict == Obj(Str("UNABLE_TO_DETERMINE", FALSE, FALSE), Num(0))

\* llm_service.py 370-397  LLMService._parse_json
_parse_json(reply) ==
    IF reply.json.t = "garbage" THEN FallbackDict
    ELSE IF reply.wrap \in {"plain", "fenced"} THEN reply.json
    ELSE \* json.loads fails on the whole text; the {...} block is tried
         IF reply.json.t = "obj" THEN reply.json ELSE FallbackDict

\* str.upper().strip() of a status string
UpperStrip(s) == s.name

Exception == [kind |-> "exception", status |-> None, confidence |-> 0]
Result(st, conf) == [kind |-> "result", status |-> st, confidence |-> conf]

\* compliance_engine.py 711-719: raw_status and the status_map lookup
MapStatus(s) ==
    LET raw == IF s.k \in {"absent", "null"} \/ (s.k = "str" /\ s.name = "")
               THEN "UNABLE_TO_DETERMINE"
               ELSE UpperStrip(s)
    IN IF raw \in ComplianceStatus THEN raw ELSE "UNABLE_TO_DETERMINE"

\* compliance_engine.py 721-722: float(...) and the clamp, in thousandths
ClampConfidence(c) ==
    LET v == IF c.k = "absent" THEN 500 ELSE c.v
    IN Max(0, Min(1000, v))

\* compliance_engine.py 711, 721: the expressions that raise
\*   result.get on a non-dict, .upper() on a non-string, float() of a
\*   non-number
BuildRaises(parsed) ==
    \/ parsed.t # "obj"
    \/ parsed.status.k = "number"
    \/ parsed.confidence.k \in {"null", "word"}

\* compliance_engine.py 711-735  the tail of _assess_single_rule_cot
BuildResult(parsed) ==
    IF BuildRaises(parsed) THEN Exception
    ELSE Result(MapStatus(parsed.status), ClampConfidence(parsed.confidence))

(***************************************************************************)
(* Phase 5: the tally, the score and the report                            *)
(*   compliance_engine.py 228-285                                          *)
(* Scores are held in hundredths of a percent (round(score, 2) * 100).     *)
(***************************************************************************)
\* compliance_engine.py 230-234: sum(1 for r in all_results if r.status == st)
CountStatus(results, st) ==
    Cardinality({i \in DOMAIN results : results[i].status = st})

\* a tally that leaves the partial verdicts out of the scorable ones
ScorableWithoutPartial(compliant, non_compliant, partial) ==
    compliant + non_compliant

\* compliance_engine.py 236: scorable = compliant + non_compliant + partial
Scorable(compliant, non_compliant, partial) ==
    compliant + non_compliant + partial

\* round(x, 2) of x = num / den percent, as hundredths: round-half-even
Round2(num, den) ==
    LET q == (num * 100) \div den
        r == (num * 100) % den
    IN IF 2 * r < den THEN q
       ELSE IF 2 * r > den THEN q + 1
       ELSE IF q % 2 = 0 THEN q ELSE q + 1

\* compliance_engine.py 238, 280: score, then round(score, 2)
\*   (compliant + 0.5 * partial) / scorable * 100 = (2c + p) * 50 / scorable
OverallScore(compliant, non_compliant, partial) ==
    LET scorable == Scorable(compliant, non_compliant, partial)
    IN IF scorable > 0
       THEN Round2((2 * compliant + partial) * 50, scorable)
       ELSE 0

NoReport ==
    [kind |-> "none", report_id |-> 0, document_id |-> None,
     total_rules_checked |-> 0, compliant_count |-> 0,
     non_compliant_count |-> 0, partially_compliant_count |-> 0,
     not_applicable_count |-> 0, unable_to_determine_count |-> 0,
     overall_compliance_score |-> 0, results |-> <<>>, summary |-> ""]

\* compliance_engine.py 230-285: the counts, the score and the report
BuildReport(rid, doc, results, summary) ==
    LET compliant == CountStatus(results, "COMPLIANT")
        non_compliant == CountStatus(results, "NON_COMPLIANT")
        partial == CountStatus(results, "PARTIALLY_COMPLIANT")
    IN [kind |-> "report", report_id |-> rid, document_id |-> doc,
        total_rules_checked |-> Len(results),
        compliant_count |-> compliant,
        non_compliant_count |-> non_compliant,
        partially_compliant_count |-> partial,
        not_applicable_count |-> CountStatus(results, "NOT_APPLICABLE"),
        unable_to_determine_count |-> CountStatus(results, "UNABLE_TO_DETERMINE"),
        overall_compliance_score |-> OverallScore(compliant, non_compliant, partial),
        results |-> results, summary |-> summary]

\* llm_service.py 292-310: the provider's text, or the fixed fallback string
Summaries == {"llm summary", "Executive summary generation failed."}

ScoreIdle ==
    /\ score_pc = "idle"
    /\ score_in = <<>>
    /\ score_results = <<>>
    /\ score_report = NoReport

(***************************************************************************)
(* Phase 2: the query planner                                              *)
(*   compliance_engine.py 452-563                                          *)
(* A query is its text plus, for the generic fallback query, the rule-set  *)
(* name appended to it.  The planner's reply is a raise or a text that     *)
(* wraps a JSON value; an entry of a JSON array is a string (longer than   *)
(* 10 characters or not) or something else.                                *)
(***************************************************************************)
Q(text) == [text |-> text, arg |-> ""]

BlankQuery == Q("            ")

KnownFrameworks ==
    {"IndAS", "Schedule_III", "SEBI_LODR", "RBI_Norms", "ESG_BRSR",
     "Auditing_Standards", "Disclosure_Checklists"}

\* compliance_engine.py 510-563  ComplianceEngine._static_queries
_static_queries(framework) ==
    CASE framework = "IndAS" ->
           << Q("Presentation of financial statements required disclosures Ind AS 1"),
              Q("Revenue recognition policies and disclosures Ind AS 115"),
              Q("Financial instruments classification and measurement Ind AS 109"),
              Q("Related party transactions disclosure requirements Ind AS 24"),
              Q("Earnings per share calculation and disclosure Ind AS 33"),
              Q("Lease accounting right of use assets Ind AS 116"),
              Q("Employee benefits provisions disclosures Ind AS 19"),
              Q("Impairment of assets testing requirements Ind AS 36") >>
      [] framework = "Schedule_III" ->
           << Q("Balance sheet format line items as per Schedule III"),
              Q("Statement of profit and loss format Schedule III requirements"),
              Q("Cash flow statement format direct or indirect method"),
              Q("Notes to financial statements disclosure requirements"),
              Q("Significant accounting policies disclosure"),
              Q("General instructions for preparation of financial statements Schedule III") >>
      [] framework = "SEBI_LODR" ->
           << Q("Corporate governance compliance report SEBI LODR"),
              Q("Related party transaction disclosure SEBI regulations"),
              Q("Board composition independent directors requirement"),
              Q("Audit committee composition and functions SEBI LODR"),
              Q("Quarterly financial results submission format") >>
      [] framework = "RBI_Norms" ->
           << Q("Capital adequacy ratio disclosure RBI norms"),
              Q("NPA classification and provisioning requirements"),
              Q("Asset quality disclosure income recognition"),
              Q("Liquidity coverage ratio disclosure requirements") >>
      [] framework = "ESG_BRSR" ->
           << Q("BRSR core framework essential indicators reporting"),
              Q("Environmental performance metrics GHG emissions energy"),
              Q("Social indicators employee wellbeing human rights"),
              Q("Governance structure board diversity policies") >>
      [] framework = "Auditing_Standards" ->
           << Q("Independent auditor report format SA 700"),
              Q("Key audit matters reporting SA 701"),
              Q("Going concern assessment and reporting SA 570"),
              Q("Emphasis of matter other matter paragraphs SA 706") >>
      [] framework = "Disclosure_Checklists" ->
           << Q("IndAS disclosure checklist mandatory items"),
              Q("Financial statement disclosure completeness checklist"),
              Q("Notes to accounts comprehensive disclosure requirements") >>
      [] OTHER ->
           << [text |-> "compliance requirements ", arg |-> framework] >>

NotString == [k |-> "other", long |-> FALSE, q |-> Q("")]
ShortString == [k |-> "str", long |-> FALSE, q |-> Q("too short")]
LongString(text) == [k |-> "str", long |-> TRUE, q |-> Q(text)]

PlanGarbage == [t |-> "garbage", items |-> <<>>]
PlanObject == [t |-> "object", items |-> <<>>]
PlanList(items) == [t |-> "list", items |-> items]

PlanRaise == [how |-> "raise", wrap |-> "plain", json |-> PlanGarbage]
PlanText(wrap, json) == [how |-> "content", wrap |-> wrap, json |-> json]

\* compliance_engine.py 503: isinstance(q, str) and len(q) > 10
KeepEntry(e) == e.k = "str" /\ e.long

\* compliance_engine.py 503: the list comprehension
FilterQueries(items) ==
    LET kept == SelectSeq(items, KeepEntry)
    IN [i \in 1..Len(kept) |-> kept[i].q]

\* compliance_engine.py 492-508  ComplianceEngine._generate_compliance_queries
_generate_compliance_queries(framework, reply) ==
    IF reply.how = "raise" THEN _static_queries(framework)
    ELSE IF reply.wrap = "prose" \/ reply.json.t = "garbage"
         THEN \* json.loads raises: only a leading code fence is stripped
              _static_queries(framework)
    ELSE IF reply.json.t = "list" THEN FilterQueries(reply.json.items)
    ELSE _static_queries(framework)

PlanIdle ==
    /\ plan_pc = "idle"
    /\ plan_framework = None
    /\ plan_reply = PlanRaise
    /\ plan_queries = <<>>

(***************************************************************************)
(* Phase 3: iterative retrieval                                            *)
(*   compliance_engine.py 569-634, vector_store.py 182-215                 *)
(* A passage text is held as its first 500 characters (head) and the rest  *)
(* (tail); the empty text has both empty.  A collection is a set of        *)
(* passages; a search returns the nearest n_results of those the filter    *)
(* admits, nearest first.  Distances are whole numbers.                    *)
(***************************************************************************)
Text(head, tail) == [head |-> head, tail |-> tail]
EmptyText == Text("", "")

Passage(n, id, text, fw) == [n |-> n, id |-> id, text |-> text, framework |-> fw]

Universe ==
    { Passage(1, "r1", Text("A", "x"), "IndAS"),
      Passage(2, "r2", Text("A", "y"), "IndAS"),
      Passage(3, "r3", Text("B", ""), "IndAS"),
      Passage(4, "r4", EmptyText, "IndAS"),
      Passage(5, "r5", Text("A", "x"), "Schedule_III") }

\* the similarity distance of a passage from a query's embedding
Dist(q, p) ==
    CASE q.text = "generated query one" -> <<3, 1, 2, 1, 3>>[p.n]
      [] q.text = "generated query two" -> <<1, 2, 2, 3, 0>>[p.n]
      [] OTHER -> <<2, 2, 1, 1, 2>>[p.n]

RECURSIVE NearestFirst(_, _)
\* the passages of set S as a sequence, by ascending distance from q
NearestFirst(S, q) ==
    IF S = {} THEN <<>>
    ELSE LET p == CHOOSE x \in S :
                    \A y \in S : \/ Dist(q, x) < Dist(q, y)
                                 \/ Dist(q, x) = Dist(q, y) /\ x.n <= y.n
         IN <<p>> \o NearestFirst(S \ {p}, q)

NoFilter == "no filter"

\* vector_store.py 182-215  VectorStoreService.query
VSQuery(corpus, q, n_results, where) ==
    LET admitted == IF where = NoFilter THEN corpus
                    ELSE {p \in corpus : p.framework = where}
        ranked == NearestFirst(admitted, q)
        k == Min(n_results, IF Cardinality(corpus) = 0 THEN n_results
                            ELSE Cardinality(corpus))
    IN SubSeq(ranked, 1, Min(k, Len(ranked)))

\* hashlib.md5(...).hexdigest(): one digest per input
Md5(x) == <<"md5", x>>

\* a fingerprint taken over the whole text
FingerprintWholeText(text) == Md5(<<text.head, text.tail>>)

\* compliance_engine.py 617: hashlib.md5(text[:500].encode()).hexdigest()
Fingerprint(text) == Md5(<<text.head, "">>)

\* embedding_service.py 60-62: blank input gives the empty vector
IsBlank(q) == q = BlankQuery

RetrStart ==
    [raised |-> FALSE, seen |-> {}, rules |-> <<>>, searches |-> <<>>,
     raw |-> <<>>]

\* compliance_engine.py 614: one hit of the zip over a search's answer, as
\* the retrieval met it: the passage, its distance and the query
Hit(p, q) ==
    [n |-> p.n, id |-> p.id, text |-> p.text, framework |-> p.framework,
     distance |-> Dist(q, p), query |-> q]

RECURSIVE Dedup(_, _, _, _, _)
\* compliance_engine.py 614-630: the loop over one query's hits
Dedup(st, hits, i, q, framework) ==
    IF i > Len(hits) THEN st
    ELSE LET p == hits[i]
             st1 == [st EXCEPT !.raw = Append(@, Hit(p, q))]
         IN IF p.text = EmptyText
            THEN Dedup(st1, hits, i + 1, q, framework)
            ELSE IF Fingerprint(p.text) \in st.seen
            THEN Dedup(st1, hits, i + 1, q, framework)
            ELSE Dedup([st1 EXCEPT
                          !.seen = @ \cup {Fingerprint(p.text)},
                          !.rules = Append(@, [rule_id |-> p.id,
                                               rule_text |-> p.text,
                                               framework |-> p.framework,
                                               distance |-> Dist(q, p),
                                               query |-> q])],
                       hits, i + 1, q, framework)

\* a retrieval that filters by the rule-set name whatever the rule-set
WhereFilterAlways(framework) == framework

\* compliance_engine.py 579-582
WhereFilter(framework) ==
    IF framework # "Disclosure_Checklists" THEN framework ELSE NoFilter

\* compliance_engine.py 584-630: one turn of the loop over the queries.
\* env says what the turn's calls do: "ok", "emb_raise" (embed_single
\* raises), "filter_raise" (the first search raises), "search_raise" (both
\* searches raise).
RetrOneQuery(st, qe, k, framework, corpus) ==
    LET q == qe.q
        first == [query |-> k, where |-> WhereFilter(framework)]
        second == [query |-> k, where |-> NoFilter]
    IN IF IsBlank(q) THEN st
       ELSE IF qe.env = "emb_raise" THEN [st EXCEPT !.raised = TRUE]
       ELSE IF qe.env = "search_raise"
            THEN [st EXCEPT !.searches = @ \o <<first, second>>]
       ELSE IF qe.env = "filter_raise"
            THEN Dedup([st EXCEPT !.searches = @ \o <<first, second>>],
                       VSQuery(corpus, q, _TOP_K_PER_QUERY, NoFilter),
                       1, q, framework)
       ELSE Dedup([st EXCEPT !.searches = Append(@, first)],
                  VSQuery(corpus, q, _TOP_K_PER_QUERY, WhereFilter(framework)),
                  1, q, framework)

RECURSIVE RetrLoop(_, _, _, _, _)
\* compliance_engine.py 584: for query in queries (an exception ends it)
RetrLoop(st, queries, k, framework, corpus) ==
    IF k > Len(queries) \/ st.raised THEN st
    ELSE RetrLoop(RetrOneQuery(st, queries[k], k, framework, corpus),
                  queries, k + 1, framework, corpus)

RECURSIVE TiesReversedSort(_)
\* a sort by distance that puts a rule before the earlier rules of its
\* distance
TiesReversedSort(rules) ==
    IF rules = <<>> THEN <<>>
    ELSE LET n == Len(rules)
             front == TiesReversedSort(SubSeq(rules, 1, n - 1))
             x == rules[n]
             k == Cardinality({i \in 1..(n - 1) : front[i].distance < x.distance})
         IN SubSeq(front, 1, k) \o <<x>> \o SubSeq(front, k + 1, n - 1)

RECURSIVE StableSort(_)
\* compliance_engine.py 633: all_rules.sort(key=distance), a stable sort
StableSort(rules) ==
    IF rules = <<>> THEN <<>>
    ELSE LET n == Len(rules)
             front == StableSort(SubSeq(rules, 1, n - 1))
             x == rules[n]
             k == Cardinality({i \in 1..(n - 1) : front[i].distance <= x.distance})
         IN SubSeq(front, 1, k) \o <<x>> \o SubSeq(front, k + 1, n - 1)

\* compliance_engine.py 569-634  ComplianceEngine._retrieve_rules_iteratively
_retrieve_rules_iteratively(queries, framework, corpus) ==
    LET st == RetrLoop(RetrStart, queries, 1, framework, corpus)
    IN IF st.raised THEN [st EXCEPT !.rules = <<>>]
       ELSE [st EXCEPT !.rules = StableSort(@)]

RetrIdle ==
    /\ retr_pc = "idle"
    /\ retr_framework = None
    /\ retr_corpus = {}
    /\ retr_queries = <<>>
    /\ retr_out = RetrStart

(***************************************************************************)
(* The stores and the outcome of a run                                     *)
(*   compliance_pipeline.py 40-97, compliance_engine.py 89-292, 828-857    *)
(***************************************************************************)
DocRecord(present, names) ==
    [present |-> present, status |-> "processed", sections |-> names,
     last_compliance_report_id |-> 0, last_compliance_score |-> 0]

\* no run has finished yet
NoOutcome == [kind |-> "none", report |-> NoReport, error |-> None]

\* a return statement handing the report to the caller
Returns(rep) == [kind |-> "report", report |-> rep, error |-> None]

\* an error handler that swallows the exception and returns an empty report
ReturnsEmptyOnError(error) ==
    [kind |-> "report", report |-> [NoReport EXCEPT !.kind = "report"],
     error |-> None]

\* an error raised without its type, as a plain Exception
UntypedError(why) == "Exception"

\* compliance_pipeline.py 57, compliance_engine.py 301: the not-found
\* errors are ValueErrors (routers/compliance.py: 404, any other 500)
ErrorType(why) ==
    IF why \in {"not found", "not found in engine"} THEN "ValueError"
    ELSE "Exception"

\* compliance_pipeline.py 57, 97: raise -- the caller gets the exception
Raises(error) == [kind |-> "error", report |-> NoReport, error |-> error]

EmptySummary == "No document content could be extracted for compliance analysis."

\* compliance_engine.py 828-850  ComplianceEngine._empty_report
_empty_report(rid, doc) ==
    [kind |-> "report", report_id |-> rid, document_id |-> doc,
     total_rules_checked |-> 0, compliant_count |-> 0,
     non_compliant_count |-> 0, partially_compliant_count |-> 0,
     not_applicable_count |-> 0, unable_to_determine_count |-> 0,
     overall_compliance_score |-> 0, results |-> <<>>,
     summary |-> EmptySummary]

\* compliance_engine.py 54-62, 149
_FRAMEWORK_COLLECTIONS(framework) ==
    IF framework = "Disclosure_Checklists" THEN "disclosure_checklists"
    ELSE "regulatory_frameworks"

\* compliance_engine.py 97: frameworks or ["IndAS", "Schedule_III"]
DefaultFrameworks(arg) ==
    IF arg = <<>> THEN <<"IndAS", "Schedule_III">> ELSE arg

\* str.lower() of a section name
Lower(name) ==
    CASE name = "Notes" -> "notes"
      [] name = "NOTES" -> "notes"
      [] name = "Other" -> "other"
      [] OTHER -> name

\* compliance_engine.py 118-123: the optional section filter
FilterSections(names, filter) ==
    IF filter = {} THEN names
    ELSE {n \in names : Lower(n) \in {Lower(x) : x \in filter}}

RunIdle ==
    /\ documents = <<>>
    /\ compliance_reports = <<>>
    /\ collections = <<>>
    /\ pc = "off"
    /\ document_id = None
    /\ frameworks = <<>>
    /\ sections = {}
    /\ report = NoReport
    /\ doc_text_sections = {}
    /\ report_id = 0
    /\ fw_idx = 0
    /\ all_results = <<>>
    /\ retrieved_total = 0
    /\ failure = None
    /\ outcome = NoOutcome
    /\ runs = 0
    /\ progress = <<>>
    /\ at_start = <<>>

(***************************************************************************)
(* The rest states of the specifications of single functions               *)
(***************************************************************************)
VerdictIdle ==
    /\ verdict_pc = "off"
    /\ verdict_reply = FallbackDict
    /\ verdict_out = Exception

OrderIdle ==
    /\ ord_pc = "off"
    /\ ord_frameworks = <<>>
    /\ ord_idx = 0
    /\ ord_rules = <<>>
    /\ ord_out = <<>>
    /\ ord_completed = <<>>
    /\ ord_results = <<>>
    /\ ord_log = <<>>

SharedIdle ==
    /\ _source_file = None
    /\ shr_pc = <<>>
    /\ shr_left = <<>>
    /\ shr_lookups = <<>>

BatchIdle ==
    /\ bat_pc = "off"
    /\ document_ids = <<>>
    /\ bat_i = 0
    /\ report_ids = <<>>
    /\ errors = <<>>
    /\ bat_out = <<>>
    /\ bat_log = <<>>

ChunkIdle ==
    /\ chk_pc = "off"
    /\ chk_doc = <<>>
    /\ _chunk_size = 0
    /\ _chunk_overlap = 0
    /\ chk_i = 0
    /\ chunks = <<>>
    /\ section_path = <<>>
    /\ current_header = ""
    /\ chk_call = 0
    /\ chk_first = <<>>

SplitIdle ==
    /\ spl_pc = "off"
    /\ spl_text = ""
    /\ spl_size = 0
    /\ spl_overlap = 0
    /\ spl_start = 0
    /\ spl_chunks = <<>>

CapIdle ==
    /\ cap_pc = "off"
    /\ retrieved_rules = <<>>
    /\ cap_rules = <<>>
    /\ cap_results = <<>>
    /\ cap_all = <<>>
    /\ total_rules_checked = 0

MoreIdle ==
    /\ BatchIdle
    /\ ChunkIdle
    /\ SplitIdle
    /\ CapIdle

LaterIdle ==
    /\ VerdictIdle
    /\ OrderIdle
    /\ SharedIdle
    /\ MoreIdle

(***************************************************************************)
(* SpecAssess: Phase 4 of one rule-set.                                    *)
(*   compliance_engine.py 199-221  the gather and the result loop          *)
(*   compliance_engine.py 655-683  _assess_with_semaphore                  *)
(*   llm_service.py 223-265        the retry loop of assess_compliance_cot *)
(* A task is suspended at "acquire" (async with semaphore), "sleep"        *)
(* (asyncio.sleep(3)), "lookup" (the evidence lookup), "invoke"            *)
(* (self._llm.ainvoke) or "backoff" (asyncio.sleep(wait)); the event loop  *)
(* resumes the suspended tasks in any order.                               *)
(***************************************************************************)
NoReply == [how |-> "none", reply |-> Reply("plain", Garbage)]
Raised(how) == [how |-> how, reply |-> Reply("plain", Garbage)]
Content(r) == [how |-> "content", reply |-> r]

\* The reply texts the provider stub may produce in SpecAssess
AssessContents ==
    { Reply("plain", Garbage),
      Reply("plain", JsonList),
      Reply("prose", Obj(Str("COMPLIANT", TRUE, TRUE), Num(700))),
      Reply("fenced", Obj(StatusNumber, Num(700))) }

Tasks == DOMAIN task_pc

InBody == {"sleep", "lookup", "invoke", "backoff"}

AssessIdle ==
    /\ rules_to_check = <<>>
    /\ sem_value = 0
    /\ task_pc = <<>>
    /\ task_attempt = <<>>
    /\ task_calls = <<>>
    /\ task_reply = <<>>
    /\ task_out = <<>>
    /\ gather_pc = "idle"
    /\ gather_results = <<>>

notAssess == <<scoreVars, planVars, retrVars, runVars, laterVars>>

\* a pass that submits every retrieved rule
TakeAllRules(retrieved) == retrieved

\* compliance_engine.py 199: rules_to_check = retrieved_rules[:15]
TakeRules(retrieved) ==
    SubSeq(retrieved, 1, Min(Len(retrieved), _MAX_RULES_PER_FRAMEWORK))

\* compliance_engine.py 143-144, 204-216: the semaphore and the tasks
InitAssess ==
    \E n \in 1..MaxRules :
        /\ rules_to_check = TakeRules([i \in 1..n |-> i])
        /\ sem_value = _MAX_CONCURRENT
        /\ task_pc = [i \in 1..n |-> "acquire"]
        /\ task_attempt = [i \in 1..n |-> 0]
        /\ task_calls = [i \in 1..n |-> 0]
        /\ task_reply = [i \in 1..n |-> NoReply]
        /\ task_out = [i \in 1..n |-> Exception]
        /\ gather_pc = "gathering"
        /\ gather_results = <<>>
        /\ ScoreIdle
        /\ PlanIdle
        /\ RetrIdle
        /\ RunIdle
        /\ LaterIdle

\* a semaphore that never blocks
SemNeverBlocks(v) == TRUE

\* asyncio.Semaphore.acquire: proceeds only while the value is positive
SemCanAcquire(v) == v > 0

\* compliance_engine.py 665: async with semaphore (entry)
Acquire(i) ==
    /\ task_pc[i] = "acquire"
    /\ SemCanAcquire(sem_value)
    /\ sem_value' = sem_value - 1
    /\ task_pc' = [task_pc EXCEPT ![i] = "sleep"]
    /\ UNCHANGED <<rules_to_check, task_attempt, task_calls, task_reply,
                   task_out, gather_pc, gather_results>>
    /\ UNCHANGED notAssess

\* compliance_engine.py 667: await asyncio.sleep(3) returns
SleepDone(i) ==
    /\ task_pc[i] = "sleep"
    /\ task_pc' = [task_pc EXCEPT ![i] = "lookup"]
    /\ UNCHANGED <<rules_to_check, sem_value, task_attempt, task_calls,
                   task_reply, task_out, gather_pc, gather_results>>
    /\ UNCHANGED notAssess

\* compliance_engine.py 665-683: the task leaves the async with block, by
\* return or by exception; the semaphore is released either way
Finish(i, out) ==
    /\ task_pc' = [task_pc EXCEPT ![i] = "done"]
    /\ task_out' = [task_out EXCEPT ![i] = out]
    /\ sem_value' = sem_value + 1

\* compliance_engine.py 670-675, 741-793: the evidence lookup returns a
\* text (possibly empty); the task goes on to the provider call
LookupReturns(i) ==
    /\ task_pc[i] = "lookup"
    /\ task_pc' = [task_pc EXCEPT ![i] = "invoke"]
    /\ task_attempt' = [task_attempt EXCEPT ![i] = 1]
    /\ UNCHANGED <<rules_to_check, sem_value, task_calls, task_reply,
                   task_out, gather_pc, gather_results>>
    /\ UNCHANGED notAssess

\* compliance_engine.py 762: embed_single is outside every try of the
\* lookup; when the embedding call raises the task ends with the exception
LookupRaises(i) ==
    /\ task_pc[i] = "lookup"
    /\ Finish(i, Exception)
    /\ UNCHANGED <<rules_to_check, task_attempt, task_calls, task_reply,
                   gather_pc, gather_results>>
    /\ UNCHANGED notAssess

\* a retry loop that gives up one attempt early
RetryExhaustedEarly(attempt) == attempt >= max_retries - 1

\* llm_service.py 238: if attempt == max_retries
RetryExhausted(attempt) == attempt = max_retries

\* llm_service.py 227-228, compliance_engine.py 711-735: ainvoke returns a
\* text; it is parsed and turned into a result (or the build raises)
InvokeReturns(i) ==
    /\ task_pc[i] = "invoke"
    /\ \E r \in AssessContents :
        /\ task_reply' = [task_reply EXCEPT ![i] = Content(r)]
        /\ Finish(i, BuildResult(_parse_json(r)))
    /\ task_calls' = [task_calls EXCEPT ![i] = @ + 1]
    /\ UNCHANGED <<rules_to_check, task_attempt, gather_pc, gather_results>>
    /\ UNCHANGED notAssess

\* llm_service.py 229-237: ainvoke raises a rate-limit error; the task
\* sleeps 2**attempt + 5 seconds
InvokeRateLimited(i) ==
    /\ task_pc[i] = "invoke"
    /\ task_reply' = [task_reply EXCEPT ![i] = Raised("rate_limit")]
    /\ task_calls' = [task_calls EXCEPT ![i] = @ + 1]
    /\ task_pc' = [task_pc EXCEPT ![i] = "backoff"]
    /\ UNCHANGED <<rules_to_check, sem_value, task_attempt, task_out,
                   gather_pc, gather_results>>
    /\ UNCHANGED notAssess

\* llm_service.py 248-257: ainvoke raises any other error
InvokeFails(i) ==
    /\ task_pc[i] = "invoke"
    /\ task_reply' = [task_reply EXCEPT ![i] = Raised("error")]
    /\ task_calls' = [task_calls EXCEPT ![i] = @ + 1]
    /\ Finish(i, BuildResult(FallbackDict))
    /\ UNCHANGED <<rules_to_check, task_attempt, gather_pc, gather_results>>
    /\ UNCHANGED notAssess

\* llm_service.py 237-247: the backoff sleep returns; the last attempt
\* returns the fallback dict, any other attempt goes round the loop
BackoffDone(i) ==
    /\ task_pc[i] = "backoff"
    /\ IF RetryExhausted(task_attempt[i])
       THEN /\ Finish(i, BuildResult(FallbackDict))
            /\ UNCHANGED task_attempt
       ELSE /\ task_pc' = [task_pc EXCEPT ![i] = "invoke"]
            /\ task_attempt' = [task_attempt EXCEPT ![i] = @ + 1]
            /\ UNCHANGED <<sem_value, task_out>>
    /\ UNCHANGED <<rules_to_check, task_calls, task_reply, gather_pc,
                   gather_results>>
    /\ UNCHANGED notAssess

IsResult(r) == r.kind = "result"

\* compliance_engine.py 216-221: gather returns once every task has ended;
\* the ComplianceCheckResults are appended in submission order
Collect ==
    /\ gather_pc = "gathering"
    /\ \A i \in Tasks : task_pc[i] = "done"
    /\ gather_pc' = "collected"
    /\ gather_results' = SelectSeq(task_out, IsResult)
    /\ UNCHANGED <<rules_to_check, sem_value, task_pc, task_attempt,
                   task_calls, task_reply, task_out>>
    /\ UNCHANGED notAssess

NextAssess ==
    \/ \E i \in Tasks : Acquire(i)
    \/ \E i \in Tasks : SleepDone(i)
    \/ \E i \in Tasks : LookupReturns(i)
    \/ \E i \in Tasks : LookupRaises(i)
    \/ \E i \in Tasks : InvokeReturns(i)
    \/ \E i \in Tasks : InvokeRateLimited(i)
    \/ \E i \in Tasks : InvokeFails(i)
    \/ \E i \in Tasks : BackoffDone(i)
    \/ Collect

SpecAssess == InitAssess /\ [][NextAssess]_vars

(***************************************************************************)
(* Claims settled under SpecAssess                                         *)
(***************************************************************************)
InFlight == Cardinality({i \in Tasks : task_pc[i] \in InBody})

\* C1: at no time are more than _MAX_CONCURRENT assessment tasks inside the
\* semaphore-guarded body of _assess_with_semaphore (delay, evidence
\* lookup, provider call and backoff), and the semaphore's value accounts
\* for exactly the tasks inside.
C1_ConcurrencyCap ==
    /\ InFlight <= _MAX_CONCURRENT
    /\ sem_value = (IF gather_pc = "idle" THEN 0 ELSE _MAX_CONCURRENT) - InFlight

\* C1 witness: the cap is reached while a third task waits at the semaphore
C1_Witness ==
    /\ InFlight = _MAX_CONCURRENT
    /\ \E i \in Tasks : task_pc[i] = "acquire"

\* C2: a task whose every provider call raised a rate-limit error ends
\* after exactly max_retries calls with an UNABLE_TO_DETERMINE result of
\* confidence 0.0 (a result, not an exception); no task ever makes more
\* than max_retries calls.
C2_RateLimitFallback ==
    \A i \in Tasks :
        /\ task_calls[i] <= max_retries
        /\ (task_pc[i] = "done" /\ task_reply[i].how = "rate_limit")
             => /\ task_calls[i] = max_retries
                /\ task_out[i] = Result("UNABLE_TO_DETERMINE", 0)

\* C2 witness: a task has ended on rate limits alone
C2_Witness ==
    \E i \in Tasks : task_pc[i] = "done" /\ task_reply[i].how = "rate_limit"

\* the replies C10 lists as unusable as a verdict object: not JSON, JSON
\* that is not an object, a non-string status, a non-numeric confidence
UnusableReply(r) ==
    \/ r.json.t \in {"garbage", "list"}
    \/ r.json.status.k = "number"
    \/ r.json.confidence.k \in {"null", "word"}

\* C10 (as claimed): every task whose provider call raised an error other
\* than a rate limit, or returned a reply unusable as a verdict object,
\* ends with an UNABLE_TO_DETERMINE result and not with an exception.
C10_DegradesToUnable ==
    \A i \in Tasks :
        (/\ task_pc[i] = "done"
         /\ \/ task_reply[i].how = "error"
            \/ task_reply[i].how = "content" /\ UnusableReply(task_reply[i].reply))
        => /\ task_out[i].kind = "result"
           /\ task_out[i].status = "UNABLE_TO_DETERMINE"

\* C23: the evidence lookup never fails the rule: whatever its collaborator
\* calls do, every task that has ended went on to the provider call (was
\* assessed) after the lookup.
C23_LookupNeverFailsRule ==
    \A i \in Tasks : task_pc[i] = "done" => task_calls[i] >= 1

(***************************************************************************)
(* SpecScore: Phase 5 on every multiset of verdicts.  The result list is   *)
(* drawn with score_in[1] COMPLIANT, score_in[2] NON_COMPLIANT,            *)
(* score_in[3] PARTIALLY_COMPLIANT, score_in[4] NOT_APPLICABLE and         *)
(* score_in[5] UNABLE_TO_DETERMINE entries.                                *)
(***************************************************************************)
notScore == <<assessVars, planVars, retrVars, runVars, laterVars>>

VerdictList(n) ==
    [i \in 1..(n[1] + n[2] + n[3] + n[4] + n[5]) |->
        Result(IF i <= n[1] THEN "COMPLIANT"
               ELSE IF i <= n[1] + n[2] THEN "NON_COMPLIANT"
               ELSE IF i <= n[1] + n[2] + n[3] THEN "PARTIALLY_COMPLIANT"
               ELSE IF i <= n[1] + n[2] + n[3] + n[4] THEN "NOT_APPLICABLE"
               ELSE "UNABLE_TO_DETERMINE", 500)]

InitScore ==
    /\ \E c \in 0..MaxCount, nc \in 0..MaxCount, p \in 0..MaxCount,
          na \in 0..MaxOther, un \in 0..1 :
        /\ score_in = <<c, nc, p, na, un>>
        /\ score_results = VerdictList(<<c, nc, p, na, un>>)
    /\ score_pc = "input"
    /\ score_report = NoReport
    /\ AssessIdle
    /\ PlanIdle
    /\ RetrIdle
    /\ RunIdle
    /\ LaterIdle

\* compliance_engine.py 228-285
Synthesise ==
    /\ score_pc = "input"
    /\ \E summary \in Summaries :
        score_report' = BuildReport(1, "doc", score_results, summary)
    /\ score_pc' = "done"
    /\ UNCHANGED <<score_in, score_results>>
    /\ UNCHANGED notScore

NextScore == Synthesise

SpecScore == InitScore /\ [][NextScore]_vars

(***************************************************************************)
(* Claims settled under SpecScore                                          *)
(***************************************************************************)
ScoreDone == score_pc = "done"

\* C4 (as claimed): the report's overall score equals
\* (compliant + 0.5 * partial) / scorable * 100 exactly when scorable > 0,
\* and 0 when nothing is scorable.
C4_ScoreExact ==
    ScoreDone =>
        LET c == score_in[1]
            p == score_in[3]
            scorable == score_in[1] + score_in[2] + score_in[3]
        IN IF scorable > 0
           THEN score_report.overall_compliance_score * scorable
                    = (2 * c + p) * 5000
           ELSE score_report.overall_compliance_score = 0

\* C4 (amended): the report's overall score is that value rounded to two
\* decimal places (it differs from it by at most 0.005) when scorable > 0,
\* and 0 when nothing is scorable; it lies in 0..100; score(10,0,0) = 100,
\* score(5,5,0) = 50 and score(0,0,0,na=5) = 0.
C4_ScoreRounded ==
    ScoreDone =>
        LET c == score_in[1]
            p == score_in[3]
            scorable == score_in[1] + score_in[2] + score_in[3]
            s == score_report.overall_compliance_score
            d == s * scorable - (2 * c + p) * 5000
        IN /\ s \in 0..10000
           /\ scorable > 0 => (2 * d <= scorable /\ -2 * d <= scorable)
           /\ scorable = 0 => s = 0
           /\ score_in = <<10, 0, 0, 0, 0>> => s = 10000
           /\ score_in = <<5, 5, 0, 0, 0>> => s = 5000
           /\ score_in = <<0, 0, 0, 5, 0>> => s = 0

\* C4 witness: a synthesised report whose exact score has more than two
\* decimals (1 compliant of 3 scorable, with not-applicable results beside)
C4_Witness ==
    /\ ScoreDone
    /\ score_in = <<1, 2, 0, 5, 1>>
    /\ score_report.overall_compliance_score = 3333

(***************************************************************************)
(* SpecPlanner: _generate_compliance_queries for every rule-set name and   *)
(* every reply of the provider.                                            *)
(***************************************************************************)
notPlan == <<assessVars, scoreVars, retrVars, runVars, laterVars>>

PlanEntries ==
    {NotString, ShortString, LongString("generated query one"),
     LongString("generated query two"), LongString(BlankQuery.text)}

RECURSIVE SeqsUpTo(_, _)
\* the sequences over S of length at most n
SeqsUpTo(S, n) ==
    IF n = 0 THEN {<<>>}
    ELSE LET shorter == SeqsUpTo(S, n - 1)
         IN shorter \cup {Append(q, x) : q \in shorter, x \in S}

PlanReplies ==
    {PlanRaise} \cup
    {PlanText(w, j) :
        w \in {"plain", "fenced", "prose"},
        j \in {PlanGarbage, PlanObject} \cup
              {PlanList(items) : items \in SeqsUpTo(PlanEntries, MaxEntries)}}

InitPlanner ==
    /\ plan_pc = "input"
    /\ plan_framework \in KnownFrameworks \cup {"Custom_Framework"}
    /\ plan_reply \in PlanReplies
    /\ plan_queries = <<>>
    /\ AssessIdle
    /\ ScoreIdle
    /\ RetrIdle
    /\ RunIdle
    /\ LaterIdle

\* compliance_engine.py 452-508
GenerateQueries ==
    /\ plan_pc = "input"
    /\ plan_queries' = _generate_compliance_queries(plan_framework, plan_reply)
    /\ plan_pc' = "done"
    /\ UNCHANGED <<plan_framework, plan_reply>>
    /\ UNCHANGED notPlan

NextPlanner == GenerateQueries

SpecPlanner == InitPlanner /\ [][NextPlanner]_vars

(***************************************************************************)
(* Claims settled under SpecPlanner                                        *)
(***************************************************************************)
\* the planner's primary path fails: the call raises, the reply is not a
\* strict JSON array, or the reply is an empty array
PrimaryPathFails(reply) ==
    \/ reply.how = "raise"
    \/ reply.wrap = "prose"
    \/ reply.json.t # "list"
    \/ reply.json.items = <<>>

\* C8 (as claimed): whenever the primary path fails the planner returns the
\* static fallback list of the rule-set, and the planner never returns an
\* empty query list.
C8_PlannerFallsBack ==
    plan_pc = "done" =>
        /\ PrimaryPathFails(plan_reply)
             => plan_queries = _static_queries(plan_framework)
        /\ plan_queries # <<>>

\* C21: the static fallback list has at least 4 and at most 8 queries for
\* each of the seven known rule-set names, and exactly one query, built
\* from the name, for any other name.
C21_StaticQueryCounts ==
    (plan_pc = "done" /\ plan_reply.how = "raise") =>
        IF plan_framework \in KnownFrameworks
        THEN Len(plan_queries) >= 4 /\ Len(plan_queries) <= 8
        ELSE plan_queries = << [text |-> "compliance requirements ",
                                arg |-> plan_framework] >>

(***************************************************************************)
(* SpecRetrieve: _retrieve_rules_iteratively for every collection content, *)
(* every list of queries and every failure of a query's calls.             *)
(***************************************************************************)
notRetr == <<assessVars, scoreVars, planVars, runVars, laterVars>>

QueryPool ==
    {Q("generated query one"), Q("generated query two"), BlankQuery}

QueryEnvs == {"ok", "emb_raise", "filter_raise", "search_raise"}

InitRetrieve ==
    /\ retr_pc = "input"
    /\ retr_framework \in {"IndAS", "Disclosure_Checklists"}
    /\ retr_corpus \in SUBSET Universe
    /\ retr_queries \in
         SeqsUpTo({[q |-> q, env |-> e] : q \in QueryPool, e \in QueryEnvs},
                  MaxQueries)
    /\ retr_out = RetrStart
    /\ AssessIdle
    /\ ScoreIdle
    /\ PlanIdle
    /\ RunIdle
    /\ LaterIdle

\* compliance_engine.py 569-634
Retrieve ==
    /\ retr_pc = "input"
    /\ retr_out' = _retrieve_rules_iteratively(retr_queries, retr_framework,
                                               retr_corpus)
    /\ retr_pc' = "done"
    /\ UNCHANGED <<retr_framework, retr_corpus, retr_queries>>
    /\ UNCHANGED notRetr

NextRetrieve == Retrieve

SpecRetrieve == InitRetrieve /\ [][NextRetrieve]_vars

(***************************************************************************)
(* Claims settled under SpecRetrieve                                       *)
(***************************************************************************)
RetrReturned == retr_pc = "done" /\ ~retr_out.raised

\* C5: the output of one retrieval call holds each 500-character prefix
\* at most once and no empty text; every non-empty passage among the hits
\* (from several queries, or several times from one) is there once.
C5_DedupByFingerprint ==
    RetrReturned =>
        LET rules == retr_out.rules
            raw == retr_out.raw
        IN /\ \A i, j \in DOMAIN rules :
                i # j => rules[i].rule_text.head # rules[j].rule_text.head
           /\ \A i \in DOMAIN rules : rules[i].rule_text # EmptyText
           /\ {rules[i].rule_text.head : i \in DOMAIN rules}
                = {raw[i].text.head : i \in DOMAIN raw} \ {""}

\* C5 witness: at least two searches returned hits, at least three of them
\* were dropped (repeats or empty), one had an empty text, and two rules
\* remain
C5_Witness ==
    /\ RetrReturned
    /\ Len(retr_out.searches) >= 2
    /\ Len(retr_out.raw) >= Len(retr_out.rules) + 3
    /\ \E i \in DOMAIN retr_out.raw : retr_out.raw[i].text = EmptyText
    /\ Len(retr_out.rules) = 2

QueryFails(qe) == ~IsBlank(qe.q) /\ qe.env \in {"emb_raise", "search_raise"}
QuerySurvives(qe) == ~QueryFails(qe)

\* C9 (as claimed): a failure while handling one query (its embedding call
\* or its searches raising) skips only that query: no exception escapes the
\* retrieval call and its output is that of the remaining queries.
C9_FailedQuerySkipped ==
    retr_pc = "done" =>
        /\ ~retr_out.raised
        /\ retr_out.rules =
             _retrieve_rules_iteratively(SelectSeq(retr_queries, QuerySurvives),
                                         retr_framework, retr_corpus).rules

\* the searches made for the k-th query, in the order made
SearchesOf(k) == SelectSeq(retr_out.searches, LAMBDA srch : srch.query = k)

\* at most two searches for the k-th query; a second one is without filter
\* and made only when the first raised; every candidate comes from a query
\* one of whose searches succeeded
SearchedAtMostTwice ==
    /\ \A k \in DOMAIN retr_queries :
         /\ Len(SearchesOf(k)) <= 2
         /\ Len(SearchesOf(k)) = 2 =>
              /\ SearchesOf(k)[2].where = NoFilter
              /\ retr_queries[k].env \in {"filter_raise", "search_raise"}
         /\ retr_queries[k].env = "ok" => Len(SearchesOf(k)) <= 1
    /\ \A i \in DOMAIN retr_out.rules :
         \E k \in DOMAIN retr_queries :
            /\ retr_queries[k].q = retr_out.rules[i].query
            /\ retr_queries[k].env \in {"ok", "filter_raise"}

\* C24 (as claimed): each query is searched at most twice, first with the
\* rule-set metadata filter, then without filter and only if the first
\* search raised; a query whose second search raises too contributes no
\* candidate.
C24_FilteredThenUnfiltered ==
    retr_pc = "done" =>
        /\ SearchedAtMostTwice
        /\ \A k \in DOMAIN retr_queries :
             Len(SearchesOf(k)) >= 1 =>
                SearchesOf(k)[1].where = retr_framework

\* C24 (amended): as above, except that the first search carries the
\* rule-set filter for every rule-set but Disclosure_Checklists, which is
\* searched without a filter the first time too.
C24_OptionalFilterThenUnfiltered ==
    retr_pc = "done" =>
        /\ SearchedAtMostTwice
        /\ \A k \in DOMAIN retr_queries :
             Len(SearchesOf(k)) >= 1 =>
                SearchesOf(k)[1].where =
                    IF retr_framework = "Disclosure_Checklists"
                    THEN NoFilter ELSE retr_framework

\* C24 witness: a retrieval for Disclosure_Checklists in which the first
\* search of one query raised and its second search gave a candidate, and
\* both searches of another query raised
C24_Witness ==
    /\ RetrReturned
    /\ retr_framework = "Disclosure_Checklists"
    /\ \E k \in DOMAIN retr_queries :
         retr_queries[k].env = "filter_raise" /\ Len(SearchesOf(k)) = 2
    /\ \E k \in DOMAIN retr_queries :
         retr_queries[k].env = "search_raise" /\ Len(SearchesOf(k)) = 2
    /\ retr_out.rules # <<>>

\* the place in the call's hits where a text with the fingerprint of text
\* was first met
FirstMet(text) ==
    CHOOSE i \in DOMAIN retr_out.raw :
        /\ retr_out.raw[i].text # EmptyText
        /\ Fingerprint(retr_out.raw[i].text) = Fingerprint(text)
        /\ \A j \in 1..(i - 1) :
             \/ retr_out.raw[j].text = EmptyText
             \/ Fingerprint(retr_out.raw[j].text) # Fingerprint(text)

\* C30: the candidate kept for a fingerprint is the first hit met with it
\* (in query order, then hit order), with that hit's rule id, text,
\* distance and query, also when a later hit with the fingerprint is
\* nearer; the output is sorted by distance and candidates of equal
\* distance keep the order in which they were met.
C30_FirstHitKept ==
    RetrReturned =>
        LET rules == retr_out.rules
            raw == retr_out.raw
        IN /\ \A i \in DOMAIN rules :
                /\ rules[i].rule_id = raw[FirstMet(rules[i].rule_text)].id
                /\ rules[i].rule_text = raw[FirstMet(rules[i].rule_text)].text
                /\ rules[i].distance
                     = raw[FirstMet(rules[i].rule_text)].distance
                /\ rules[i].query = raw[FirstMet(rules[i].rule_text)].query
           /\ \A i, j \in DOMAIN rules :
                i < j =>
                  \/ rules[i].distance < rules[j].distance
                  \/ /\ rules[i].distance = rules[j].distance
                     /\ FirstMet(rules[i].rule_text)
                          < FirstMet(rules[j].rule_text)

\* C30 witness: a later hit with the fingerprint of a kept candidate was
\* nearer than the candidate, and two candidates of equal distance are in
\* the output
C30_Witness ==
    /\ RetrReturned
    /\ \E i \in DOMAIN retr_out.rules, l \in DOMAIN retr_out.raw :
         /\ l > FirstMet(retr_out.rules[i].rule_text)
         /\ Fingerprint(retr_out.raw[l].text)
              = Fingerprint(retr_out.rules[i].rule_text)
         /\ retr_out.raw[l].distance < retr_out.rules[i].distance
    /\ \E i, j \in DOMAIN retr_out.rules :
         i < j /\ retr_out.rules[i].distance = retr_out.rules[j].distance

(***************************************************************************)
(* Spec: runs of CompliancePipeline.run, one after the other, over a       *)
(* document store with a document that has text, one that has none and an  *)
(* id that is not stored; documents may be deleted while a run is going.   *)
(***************************************************************************)
notRun == <<assessVars, scoreVars, planVars, retrVars, laterVars>>

DocIds == {"d0", "d1", "d2"}

CollectionNames == {"regulatory_frameworks", "disclosure_checklists"}

\* the rule index: two passages under regulatory_frameworks; none, or two
\* (one with an empty text) under disclosure_checklists
RunIndexes ==
    { [c \in CollectionNames |->
        IF c = "regulatory_frameworks"
        THEN {p \in Universe : p.n \in {1, 3}}
        ELSE disclosure] :
      disclosure \in {{}, {p \in Universe : p.n \in {3, 4}}} }

FrameworkArgs == {<<>>, <<"Disclosure_Checklists">>}

SectionArgs == {{}, {"Other"}}

RunPlanReplies ==
    { PlanRaise,
      PlanText("plain", PlanList(<<>>)),
      PlanText("plain", PlanList(<<LongString("generated query one"),
                                   LongString("generated query two")>>)) }

\* what may happen to one rule's task: the evidence lookup raises, the
\* provider call fails, or the provider replies
RunOutcomes ==
    { Raised("lookup"), Raised("error"),
      Content(Reply("plain", JsonList)),
      Content(Reply("prose", Obj(Str("COMPLIANT", TRUE, TRUE), Num(700)))) }

\* compliance_engine.py 655-735, llm_service.py 223-265: one rule's task
AssessOutcome(rule, o) ==
    LET r == IF o.how = "lookup" THEN Exception
             ELSE IF o.how = "error" THEN BuildResult(FallbackDict)
             ELSE BuildResult(_parse_json(o.reply))
    IN [kind |-> r.kind, status |-> r.status, confidence |-> r.confidence,
        rule_id |-> rule.rule_id]

\* the first query's calls behave as env says, the others succeed
WithEnv(queries, env) ==
    [i \in DOMAIN queries |->
        [q |-> queries[i], env |-> IF i = 1 THEN env ELSE "ok"]]

\* mongo_service.py 135-143: update_by_id changes a stored record only
UpdateById(docs, d, status, rid, score) ==
    IF docs[d].present
    THEN [docs EXCEPT ![d].status = status,
                      ![d].last_compliance_report_id = rid,
                      ![d].last_compliance_score = score]
    ELSE docs

Init ==
    /\ documents = [d \in DocIds |->
                      DocRecord(d # "d0", IF d = "d1" THEN {"Notes"} ELSE {})]
    /\ compliance_reports = <<>>
    /\ collections \in RunIndexes
    /\ pc = "idle"
    /\ document_id = None
    /\ frameworks = <<>>
    /\ sections = {}
    /\ report = NoReport
    /\ doc_text_sections = {}
    /\ report_id = 0
    /\ fw_idx = 0
    /\ all_results = <<>>
    /\ retrieved_total = 0
    /\ failure = None
    /\ outcome = NoOutcome
    /\ runs = 0
    /\ progress = <<>>
    /\ at_start = [documents |-> documents,
                   compliance_reports |-> compliance_reports]
    /\ AssessIdle
    /\ ScoreIdle
    /\ PlanIdle
    /\ RetrIdle
    /\ LaterIdle

\* one call of the progress callback: the phase its label names and pct
Call(phase, pct) == <<[phase |-> phase, pct |-> pct]>>

\* compliance_engine.py 108: "Phase 1: Decomposing document structure..."
Phase1Start == Call(1, 5)

\* compliance_engine.py 132-140: "Phase 1 complete: ..."
Phase1Complete == Call(1, 10)

\* compliance_engine.py 148: base_pct = 10 + int(fw_idx / total_fw * 70),
\* with the position counted from 1 here
BasePct(idx, total_fw) == 10 + ((idx - 1) * 70) \div total_fw

\* a pass that reports Phase 1 again before its Phase 2
PassProgressFromPhase1(idx, total_fw, how) ==
    Call(1, 10) \o Call(2, BasePct(idx, total_fw) + 5)

\* compliance_engine.py 162-226: the calls of one pass of the loop: Phase 2,
\* Phase 3 before the retrieval and, when it returns, after it; Phase 4
\* before and after the gather when rules were retrieved
PassProgress(idx, total_fw, how) ==
    LET base_pct == BasePct(idx, total_fw)
    IN Call(2, base_pct + 5) \o Call(3, base_pct + 15) \o
       (IF how = "raised" THEN <<>> ELSE Call(3, base_pct + 25)) \o
       (IF how = "assessed"
        THEN Call(4, base_pct + 30) \o Call(4, base_pct + 55) ELSE <<>>)

\* compliance_engine.py 229: "Phase 5: Synthesising results ..."
Phase5Start == Call(5, 85)

\* the locals of a run at its start
FreshRun ==
    /\ report' = NoReport
    /\ doc_text_sections' = {}
    /\ report_id' = 0
    /\ fw_idx' = 0
    /\ all_results' = <<>>
    /\ retrieved_total' = 0
    /\ progress' = <<>>
    /\ at_start' = [documents |-> documents,
                    compliance_reports |-> compliance_reports]

\* the arguments and locals of a run that has returned or raised are gone
RunLocalsGone ==
    /\ frameworks' = <<>>
    /\ sections' = {}
    /\ report' = NoReport
    /\ report_id' = 0
    /\ fw_idx' = 0
    /\ all_results' = <<>>

\* compliance_pipeline.py 54-57: the document is not in the store
PipelineRunMissing(d) ==
    /\ pc = "idle"
    /\ runs < MaxRuns
    /\ ~documents[d].present
    /\ runs' = runs + 1
    /\ document_id' = d
    /\ frameworks' = <<>>
    /\ sections' = {}
    /\ FreshRun
    /\ failure' = "not found"
    /\ outcome' = Raises(ErrorType("not found"))
    /\ UNCHANGED <<documents, compliance_reports, collections, pc>>
    /\ UNCHANGED notRun

\* compliance_pipeline.py 54-68: found; the record is marked validating
PipelineRunStart(d, fws, secs) ==
    /\ pc = "idle"
    /\ runs < MaxRuns
    /\ documents[d].present
    /\ runs' = runs + 1
    /\ document_id' = d
    /\ frameworks' = fws
    /\ sections' = secs
    /\ FreshRun
    /\ failure' = None
    /\ documents' = [documents EXCEPT ![d].status = "validating"]
    /\ pc' = "load"
    /\ UNCHANGED <<compliance_reports, collections, outcome>>
    /\ UNCHANGED notRun

\* compliance_engine.py 97-98, 109, 298-302: _load_document raises
LoadMissing ==
    /\ pc = "load"
    /\ ~documents[document_id].present
    /\ report_id' = runs
    /\ frameworks' = DefaultFrameworks(frameworks)
    /\ failure' = "not found in engine"
    /\ pc' = "except"
    /\ progress' = progress \o Phase1Start
    /\ UNCHANGED <<documents, compliance_reports, collections, document_id,
                   sections, report, doc_text_sections, fw_idx,
                   all_results,
                   retrieved_total, outcome, runs>>
    /\ UNCHANGED at_start
    /\ UNCHANGED notRun

\* compliance_engine.py 97-130: no text section is left; the empty report
\* is returned
LoadEmpty ==
    /\ pc = "load"
    /\ documents[document_id].present
    /\ FilterSections(documents[document_id].sections, sections) = {}
    /\ report_id' = runs
    /\ frameworks' = DefaultFrameworks(frameworks)
    /\ doc_text_sections' = {}
    /\ report' = _empty_report(runs, document_id)
    /\ pc' = "returned"
    /\ progress' = progress \o Phase1Start
    /\ UNCHANGED <<documents, compliance_reports, collections, document_id,
                   sections, fw_idx, all_results, retrieved_total, failure, outcome, runs>>
    /\ UNCHANGED at_start
    /\ UNCHANGED notRun

\* compliance_engine.py 97-145: Phase 1 found sections; the loop starts
LoadSections ==
    /\ pc = "load"
    /\ documents[document_id].present
    /\ FilterSections(documents[document_id].sections, sections) # {}
    /\ report_id' = runs
    /\ frameworks' = DefaultFrameworks(frameworks)
    /\ doc_text_sections' =
         FilterSections(documents[document_id].sections, sections)
    /\ all_results' = <<>>
    /\ fw_idx' = 1
    /\ pc' = "framework"
    /\ progress' = progress \o Phase1Start \o Phase1Complete
    /\ UNCHANGED <<documents, compliance_reports, collections, document_id,
                   sections, report, retrieved_total, failure, outcome, runs>>
    /\ UNCHANGED at_start
    /\ UNCHANGED notRun

CurrentFramework == frameworks[fw_idx]

\* compliance_engine.py 151-160: the collection is empty or its stats call
\* raises; the rule-set is skipped
FrameworkSkip ==
    /\ pc = "framework"
    /\ fw_idx <= Len(frameworks)
    /\ \E stats \in {"ok", "raise"} :
        \/ stats = "raise"
        \/ Cardinality(collections[_FRAMEWORK_COLLECTIONS(CurrentFramework)]) = 0
    /\ fw_idx' = fw_idx + 1
    /\ UNCHANGED <<documents, compliance_reports, collections, pc,
                   document_id, frameworks, sections, report,
                   doc_text_sections, report_id, all_results, retrieved_total, failure,
                   outcome, runs, progress>>
    /\ UNCHANGED at_start
    /\ UNCHANGED notRun

\* compliance_engine.py 162-226: Phases 2 to 4 for the current rule-set.
\* An exception of the retrieval ends the run; an empty retrieval output
\* moves on to the next rule-set; otherwise the tasks are gathered and the
\* ComplianceCheckResults among their outcomes are appended.
FrameworkPass ==
    /\ pc = "framework"
    /\ fw_idx <= Len(frameworks)
    /\ Cardinality(collections[_FRAMEWORK_COLLECTIONS(CurrentFramework)]) > 0
    /\ \E reply \in RunPlanReplies, env \in QueryEnvs :
       \E out \in {_retrieve_rules_iteratively(
                     WithEnv(_generate_compliance_queries(CurrentFramework,
                                                          reply), env),
                     CurrentFramework,
                     collections[_FRAMEWORK_COLLECTIONS(CurrentFramework)])} :
        IF out.raised
        THEN /\ failure' = "retrieval"
             /\ pc' = "except"
             /\ progress' = progress \o
                    PassProgress(fw_idx, Len(frameworks), "raised")
             /\ UNCHANGED <<all_results, retrieved_total, fw_idx>>
        ELSE /\ retrieved_total' = retrieved_total + Len(out.rules)
             /\ progress' = progress \o
                    PassProgress(fw_idx, Len(frameworks),
                                 IF out.rules = <<>> THEN "empty"
                                 ELSE "assessed")
             /\ \E rules_checked \in {TakeRules(out.rules)} :
                \E o \in [DOMAIN rules_checked -> RunOutcomes] :
                  LET results == [i \in DOMAIN rules_checked |->
                                    AssessOutcome(rules_checked[i], o[i])]
                  IN all_results' =
                       all_results \o SelectSeq(results, IsResult)
             /\ fw_idx' = fw_idx + 1
             /\ UNCHANGED <<failure, pc>>
    /\ UNCHANGED <<documents, compliance_reports, collections, document_id,
                   frameworks, sections, report, doc_text_sections,
                   report_id, outcome, runs>>
    /\ UNCHANGED at_start
    /\ UNCHANGED notRun

\* compliance_engine.py 228-292, 852-857: Phase 5; the report is built,
\* inserted and returned (or the insert raises)
SynthesiseAndStore ==
    /\ pc = "framework"
    /\ fw_idx > Len(frameworks)
    /\ \E summary \in Summaries, insert \in {"ok", "raise"} :
        LET built == BuildReport(report_id, document_id, all_results, summary)
        IN IF insert = "ok"
           THEN /\ compliance_reports' = Append(compliance_reports, built)
                /\ report' = built
                /\ pc' = "returned"
                /\ UNCHANGED failure
           ELSE /\ failure' = "insert"
                /\ pc' = "except"
                /\ UNCHANGED <<compliance_reports, report>>
    /\ progress' = progress \o Phase5Start
    /\ UNCHANGED <<documents, collections, document_id, frameworks, sections,
                   doc_text_sections, report_id, fw_idx, all_results, retrieved_total, outcome,
                   runs>>
    /\ UNCHANGED at_start
    /\ UNCHANGED notRun

\* compliance_pipeline.py 78-89: the engine returned; the record is marked
\* validated with the report's id and score, and the report is returned
PipelineValidated ==
    /\ pc = "returned"
    /\ documents' = UpdateById(documents, document_id, "validated",
                               report.report_id,
                               report.overall_compliance_score)
    /\ outcome' = Returns(report)
    /\ pc' = "idle"
    /\ RunLocalsGone
    /\ UNCHANGED <<compliance_reports, collections, document_id,
                   doc_text_sections, retrieved_total, failure, runs, progress>>
    /\ UNCHANGED at_start
    /\ UNCHANGED notRun

\* compliance_pipeline.py 91-97: the engine raised; the record is marked
\* validation_failed and the exception goes on to the caller
PipelineFailed ==
    /\ pc = "except"
    /\ documents' =
         UpdateById(documents, document_id, "validation_failed",
                    documents[document_id].last_compliance_report_id,
                    documents[document_id].last_compliance_score)
    /\ outcome' = Raises(ErrorType(failure))
    /\ pc' = "idle"
    /\ RunLocalsGone
    /\ UNCHANGED <<compliance_reports, collections, document_id,
                   doc_text_sections, retrieved_total, failure, runs, progress>>
    /\ UNCHANGED at_start
    /\ UNCHANGED notRun

\* routers/ingest.py 419: another request deletes a document record
DeleteDocument(d) ==
    /\ pc # "idle"
    /\ d = document_id
    /\ documents[d].present
    /\ documents' = [documents EXCEPT ![d].present = FALSE]
    /\ UNCHANGED <<compliance_reports, collections, pc, document_id,
                   frameworks, sections, report, doc_text_sections,
                   report_id, fw_idx, all_results, retrieved_total, failure, outcome, runs, progress>>
    /\ UNCHANGED at_start
    /\ UNCHANGED notRun

Next ==
    \/ \E d \in DocIds : PipelineRunMissing(d)
    \/ \E d \in DocIds, fws \in FrameworkArgs, secs \in SectionArgs :
          PipelineRunStart(d, fws, secs)
    \/ LoadMissing
    \/ LoadEmpty
    \/ LoadSections
    \/ FrameworkSkip
    \/ FrameworkPass
    \/ SynthesiseAndStore
    \/ PipelineValidated
    \/ PipelineFailed
    \/ \E d \in DocIds : DeleteDocument(d)

Spec == Init /\ [][Next]_vars

(***************************************************************************)
(* Claims settled under Spec                                               *)
(***************************************************************************)
Finished == pc = "idle" /\ runs > 0

\* C3 (as claimed): the report a run returns has one entry per rule of the
\* deduplicated retrieval output: total_rules_checked and the length of
\* results equal the number of rules retrieved in the run, whatever the
\* provider replied or raised.
C3_EveryRetrievedRuleReported ==
    (Finished /\ outcome.kind = "report") =>
        /\ outcome.report.total_rules_checked = retrieved_total
        /\ Len(outcome.report.results) = retrieved_total

\* C6 (as claimed): a run that returned a report has inserted that report
\* into the report store exactly once.
C6_ReturnedReportStoredOnce ==
    (Finished /\ outcome.kind = "report") =>
        Cardinality({i \in DOMAIN compliance_reports :
                        compliance_reports[i] = outcome.report}) = 1

Rank(call) ==
    CASE call.phase = 1 -> 1
      [] call.phase \in {2, 3} -> 2
      [] call.phase = 4 -> 3
      [] OTHER -> 4

\* C14 (as claimed): the phases of a run, as the labels passed to the
\* progress callback show them, only move forward: no earlier phase is
\* entered after a later one has started.
C14_PhasesOnlyForward ==
    \A i, j \in DOMAIN progress :
        i < j => Rank(progress[i]) <= Rank(progress[j])

\* C14 (amended): within one rule-set the phases move forward; the only
\* step back is from assessing (or retrieving) of one rule-set to
\* retrieving of the next.  Decomposing is never entered after a later
\* phase, synthesizing is entered once and no phase follows it, a run that
\* returned a report did so from synthesizing or, with no text section,
\* from decomposing, and after a run has returned or raised nothing of it
\* goes on.
C14_PhasesPerRuleSet ==
    /\ [](/\ \A i \in DOMAIN progress :
               i < Len(progress) =>
                 \/ Rank(progress[i]) <= Rank(progress[i + 1])
                 \/ Rank(progress[i]) = 3 /\ Rank(progress[i + 1]) = 2
          /\ \A i, j \in DOMAIN progress :
               (i < j /\ Rank(progress[j]) = 1) => Rank(progress[i]) = 1
          /\ \A i \in DOMAIN progress :
               Rank(progress[i]) = 4 => i = Len(progress)
          /\ (Finished /\ outcome.kind = "report") =>
               /\ progress # <<>>
               /\ Rank(progress[Len(progress)]) \in {1, 4})
    /\ [][(pc = "idle" /\ runs > 0) =>
            \/ runs' = runs + 1
            \/ UNCHANGED <<progress, outcome, failure, compliance_reports,
                           documents>>]_vars

\* C14 witness: a run over two rule-sets has returned its report; the
\* labels went from assessing of the first back to retrieving of the
\* second and ended with synthesizing
C14_Witness ==
    /\ Finished
    /\ outcome.kind = "report"
    /\ \E i \in DOMAIN progress :
         /\ i < Len(progress)
         /\ Rank(progress[i]) = 3
         /\ Rank(progress[i + 1]) = 2
    /\ Rank(progress[Len(progress)]) = 4

\* the run ended because its document was not in the store
NotFoundRun == Finished /\ failure \in {"not found", "not found in engine"}

\* C15: a run whose document id is absent from the document store ends
\* with the not-found error (a ValueError); no report was inserted, no
\* planner, retrieval or assessment call was made (every such call comes
\* after a Phase 2 progress call), no record of another document changed
\* and no field of the run's record but the status marker changed; when the
\* id is absent at the pipeline's own lookup not even the status changes.
C15_NotFoundNoSideEffects ==
    NotFoundRun =>
        /\ outcome = Raises("ValueError")
        /\ compliance_reports = at_start.compliance_reports
        /\ \A i \in DOMAIN progress : progress[i].phase = 1
        /\ retrieved_total = 0
        /\ \A d \in DocIds :
             /\ documents[d].sections = at_start.documents[d].sections
             /\ documents[d].last_compliance_report_id
                  = at_start.documents[d].last_compliance_report_id
             /\ documents[d].last_compliance_score
                  = at_start.documents[d].last_compliance_score
             /\ d # document_id => documents[d] = at_start.documents[d]
        /\ failure = "not found" => documents = at_start.documents

\* C15 witness: a run for an id that is not in the store has ended with
\* the not-found error
C15_Witness ==
    /\ NotFoundRun
    /\ failure = "not found"
    /\ ~documents[document_id].present
    /\ outcome.error = "ValueError"

\* C22: the report of a run holds at most one result per rule: no two
\* entries of its results carry the same rule id, whatever rule-sets were
\* requested.
C22_OneResultPerRule ==
    (Finished /\ outcome.kind = "report") =>
        \A i, j \in DOMAIN outcome.report.results :
            outcome.report.results[i].rule_id
              = outcome.report.results[j].rule_id => i = j

\* C26: the percent values passed to the progress callback during one run
\* never decrease and all lie in 0..100.
C26_PercentNeverDecreases ==
    /\ \A i \in DOMAIN progress : progress[i].pct \in 0..100
    /\ \A i, j \in DOMAIN progress :
         i < j => progress[i].pct <= progress[j].pct

\* C28: a stored document marked validated names a report that is in the
\* report store, and no run that has returned or raised leaves a stored
\* document marked validating.
C28_ValidatedNamesStoredReport ==
    \A d \in DocIds :
        documents[d].present =>
            /\ documents[d].status = "validated" =>
                 \E i \in DOMAIN compliance_reports :
                    compliance_reports[i].report_id
                      = documents[d].last_compliance_report_id
            /\ pc = "idle" => documents[d].status # "validating"

\* the rest state of the specifications of the engine's phases and runs
EngineIdle ==
    /\ AssessIdle
    /\ ScoreIdle
    /\ PlanIdle
    /\ RetrIdle
    /\ RunIdle

engineVars == <<assessVars, scoreVars, planVars, retrVars, runVars>>

(***************************************************************************)
(* SpecVerdict: the tail of _assess_single_rule_cot on every parsed reply: *)
(* every status (absent, null, a number, empty, the five verdict names and *)
(* an unknown word, in either case, padded or not) with every confidence   *)
(* (absent, null, a word, and numbers below, inside and above [0,1]).      *)
(***************************************************************************)
notVerdict == <<engineVars, orderVars, sharedVars, moreVars>>

StatusWords == ComplianceStatus \cup {"", "MAYBE"}

VerdictStatuses ==
    {StatusAbsent, StatusNull, StatusNumber} \cup
    {Str(w, l, pd) : w \in StatusWords, l \in BOOLEAN, pd \in BOOLEAN}

\* confidences in thousandths, in steps of 0.25 from -0.5 up
VerdictConfidences ==
    {ConfAbsent, ConfNull, ConfWord} \cup
    {Num(250 * k) : k \in -2..MaxConfSteps}

InitVerdict ==
    /\ verdict_pc = "input"
    /\ verdict_reply \in {Obj(st, c) : st \in VerdictStatuses,
                                        c \in VerdictConfidences}
                           \cup {JsonList}
    /\ verdict_out = Exception
    /\ EngineIdle
    /\ OrderIdle
    /\ SharedIdle
    /\ MoreIdle

\* compliance_engine.py 711-735
BuildVerdict ==
    /\ verdict_pc = "input"
    /\ verdict_out' = BuildResult(verdict_reply)
    /\ verdict_pc' = "done"
    /\ UNCHANGED verdict_reply
    /\ UNCHANGED notVerdict

NextVerdict == BuildVerdict

SpecVerdict == InitVerdict /\ [][NextVerdict]_vars

\* the status of the reply is a string that names one of the five verdicts
StatusRecognised(st) == st.k = "str" /\ st.name \in ComplianceStatus

VerdictBuilt == verdict_pc = "done" /\ verdict_out.kind = "result"

\* C11 (as claimed): a result built from a reply whose status is missing or
\* is not one of the five verdict names has verdict UNABLE_TO_DETERMINE and
\* confidence 0 whatever confidence the reply carried; for a recognised
\* status the confidence is the reply's value clamped into [0,1].
C11_UnknownStatusZeroConfidence ==
    VerdictBuilt =>
        LET st == verdict_reply.status
            c == verdict_reply.confidence
        IN /\ ~StatusRecognised(st) =>
                /\ verdict_out.status = "UNABLE_TO_DETERMINE"
                /\ verdict_out.confidence = 0
           /\ (StatusRecognised(st) /\ c.k = "num") =>
                verdict_out.confidence = Max(0, Min(1000, c.v))

(***************************************************************************)
(* SpecOrder: the loop over the requested rule-sets; for each, the rules   *)
(* the retriever returns are submitted as tasks, the tasks complete in any *)
(* order, each with a result or an exception, and gather's list is walked  *)
(* to append the results.                                                  *)
(***************************************************************************)
notOrder == <<engineVars, verdictVars, sharedVars, moreVars>>

Pending == [kind |-> "pending", status |-> None, confidence |-> 0,
            rule_id |-> None]

OrderFrameworks ==
    { <<"IndAS">>, <<"Schedule_III", "IndAS">>,
      <<"IndAS", "Disclosure_Checklists">> }

InitOrder ==
    /\ ord_pc = "retrieve"
    /\ ord_frameworks \in OrderFrameworks
    /\ ord_idx = 1
    /\ ord_rules = <<>>
    /\ ord_out = <<>>
    /\ ord_completed = <<>>
    /\ ord_results = <<>>
    /\ ord_log = <<>>
    /\ EngineIdle
    /\ VerdictIdle
    /\ SharedIdle
    /\ MoreIdle

\* compliance_engine.py 162-216: Phases 2 and 3, then the tasks are made
\* in the order of rules_to_check
OrdSubmit ==
    /\ ord_pc = "retrieve"
    /\ ord_idx <= Len(ord_frameworks)
    /\ \E reply \in RunPlanReplies :
       \E out \in {_retrieve_rules_iteratively(
                     WithEnv(_generate_compliance_queries(
                                 ord_frameworks[ord_idx], reply), "ok"),
                     ord_frameworks[ord_idx], Universe)} :
        IF out.rules = <<>>
        THEN /\ ord_idx' = ord_idx + 1
             /\ UNCHANGED <<ord_pc, ord_rules, ord_out>>
        ELSE /\ ord_rules' = TakeRules(out.rules)
             /\ ord_out' = [i \in DOMAIN TakeRules(out.rules) |-> Pending]
             /\ ord_pc' = "gather"
             /\ UNCHANGED ord_idx
    /\ ord_completed' = <<>>
    /\ UNCHANGED <<ord_frameworks, ord_results, ord_log>>
    /\ UNCHANGED notOrder

\* compliance_engine.py 655-735: one task ends, by return or by exception
OrdComplete(i) ==
    /\ ord_pc = "gather"
    /\ ord_out[i] = Pending
    /\ \E o \in RunOutcomes :
        ord_out' = [ord_out EXCEPT ![i] = AssessOutcome(ord_rules[i], o)]
    /\ ord_completed' = Append(ord_completed, i)
    /\ UNCHANGED <<ord_pc, ord_frameworks, ord_idx, ord_rules, ord_results,
                   ord_log>>
    /\ UNCHANGED notOrder

\* a gather that lists the outcomes in the order the tasks completed
CompletionOrder(out, completed) == [k \in DOMAIN completed |-> out[completed[k]]]

\* compliance_engine.py 216: asyncio.gather lists the outcomes in the
\* order of the awaitables it was given
GatherOrder(out, completed) == [k \in DOMAIN out |-> out[k]]

\* compliance_engine.py 216-221: gather returns; the results are appended
OrdCollect ==
    /\ ord_pc = "gather"
    /\ \A i \in DOMAIN ord_out : ord_out[i] # Pending
    /\ ord_results' =
         ord_results \o SelectSeq(GatherOrder(ord_out, ord_completed), IsResult)
    /\ ord_log' = Append(ord_log, [fw |-> ord_idx, rules |-> ord_rules,
                                   out |-> ord_out,
                                   completed |-> ord_completed])
    /\ ord_idx' = ord_idx + 1
    /\ ord_pc' = "retrieve"
    /\ UNCHANGED <<ord_frameworks, ord_rules, ord_out, ord_completed>>
    /\ UNCHANGED notOrder

\* compliance_engine.py 147, 228: the loop is over
OrdLoopEnd ==
    /\ ord_pc = "retrieve"
    /\ ord_idx > Len(ord_frameworks)
    /\ ord_pc' = "done"
    /\ UNCHANGED <<ord_frameworks, ord_idx, ord_rules, ord_out,
                   ord_completed, ord_results, ord_log>>
    /\ UNCHANGED notOrder

NextOrder ==
    \/ OrdSubmit
    \/ \E i \in DOMAIN ord_out : OrdComplete(i)
    \/ OrdCollect
    \/ OrdLoopEnd

SpecOrder == InitOrder /\ [][NextOrder]_vars

RECURSIVE KeptInSubmissionOrder(_, _)
\* the rule ids whose task gave a result, rule-set by rule-set as logged
\* and within a rule-set in the order the rules were submitted
KeptInSubmissionOrder(log, k) ==
    IF k > Len(log) THEN <<>>
    ELSE LET e == log[k]
             kept(i) == e.out[i].kind = "result"
             ids == [i \in DOMAIN e.rules |-> e.rules[i].rule_id]
             RECURSIVE Pick(_)
             Pick(i) == IF i > Len(ids) THEN <<>>
                        ELSE (IF kept(i) THEN <<ids[i]>> ELSE <<>>) \o Pick(i + 1)
         IN Pick(1) \o KeptInSubmissionOrder(log, k + 1)

\* C12: the results appended to the report are, rule-set by rule-set in the
\* order the rule-sets were requested, in submission order, which is the
\* retriever's ascending-distance order, whatever the order in which the
\* tasks completed.
C12_SubmissionOrder ==
    /\ [i \in DOMAIN ord_results |-> ord_results[i].rule_id]
         = KeptInSubmissionOrder(ord_log, 1)
    /\ \A k \in DOMAIN ord_log :
         /\ \A i, j \in DOMAIN ord_log[k].rules :
               i < j => ord_log[k].rules[i].distance
                           <= ord_log[k].rules[j].distance
         /\ \A j \in DOMAIN ord_log : k < j => ord_log[k].fw < ord_log[j].fw

\* C12 witness: two rule-sets were gathered; in one of them the second
\* task completed before the first, both gave a result, and the two rules
\* lie at different distances
C12_Witness ==
    /\ ord_pc = "done"
    /\ Len(ord_log) = 2
    /\ \E k \in DOMAIN ord_log :
         /\ ord_log[k].completed = <<2, 1>>
         /\ \A i \in 1..2 : ord_log[k].out[i].kind = "result"
         /\ ord_log[k].rules[1].distance < ord_log[k].rules[2].distance

(***************************************************************************)
(* SpecShared: two runs of run_compliance_check, for two documents, going  *)
(* on at once on the engine instance the application creates once.  Each   *)
(* run stores its document's filename in self._source_file in Phase 1 and  *)
(* each of its tasks reads the attribute when it makes its evidence        *)
(* lookup; the runs interleave at their awaits.                            *)
(***************************************************************************)
notShared == <<engineVars, verdictVars, orderVars, moreVars>>

SharedRuns == {"runA", "runB"}

\* compliance_engine.py 114: doc.get("filename", "unknown")
Filename(r) == IF r = "runA" THEN "a.pdf" ELSE "b.pdf"

InitShared ==
    /\ _source_file = None
    /\ shr_pc = [r \in SharedRuns |-> "start"]
    /\ shr_left \in [SharedRuns -> 1..MaxLookups]
    /\ shr_lookups = [r \in SharedRuns |-> <<>>]
    /\ EngineIdle
    /\ VerdictIdle
    /\ OrderIdle
    /\ MoreIdle

\* compliance_engine.py 109-116: Phase 1 of run r
ShrPhase1(r) ==
    /\ shr_pc[r] = "start"
    /\ _source_file' = Filename(r)
    /\ shr_pc' = [shr_pc EXCEPT ![r] = "assess"]
    /\ UNCHANGED <<shr_left, shr_lookups>>
    /\ UNCHANGED notShared

\* compliance_engine.py 670-674: a task of run r makes its evidence lookup
\* with source_file = self._source_file
ShrLookup(r) ==
    /\ shr_pc[r] = "assess"
    /\ shr_left[r] > 0
    /\ shr_lookups' = [shr_lookups EXCEPT ![r] = Append(@, _source_file)]
    /\ shr_left' = [shr_left EXCEPT ![r] = @ - 1]
    /\ UNCHANGED <<_source_file, shr_pc>>
    /\ UNCHANGED notShared

\* compliance_engine.py 216-292: the gathers of run r are over
ShrReturn(r) ==
    /\ shr_pc[r] = "assess"
    /\ shr_left[r] = 0
    /\ shr_pc' = [shr_pc EXCEPT ![r] = "done"]
    /\ UNCHANGED <<_source_file, shr_left, shr_lookups>>
    /\ UNCHANGED notShared

NextShared ==
    \/ \E r \in SharedRuns : ShrPhase1(r)
    \/ \E r \in SharedRuns : ShrLookup(r)
    \/ \E r \in SharedRuns : ShrReturn(r)

SpecShared == InitShared /\ [][NextShared]_vars

\* C13 (as claimed): when two runs for different documents go on at once
\* on the one engine instance, every evidence lookup of a run uses the
\* filename of that run's own document.
C13_LookupUsesOwnFile ==
    \A r \in SharedRuns :
        \A i \in DOMAIN shr_lookups[r] : shr_lookups[r][i] = Filename(r)

(***************************************************************************)
(* SpecBatch: CompliancePipeline.run_batch (compliance_pipeline.py         *)
(* 103-136) over every list of up to MaxBatch document ids, each call of   *)
(* self.run returning a report or raising.                                 *)
(***************************************************************************)
notBatch == <<engineVars, verdictVars, orderVars, sharedVars, chunkVars,
              splitVars, capVars>>

\* what str(exc) can be for a run that raised
BatchErrors == {"Document not found", "boom"}

InitBatch ==
    /\ bat_pc = "loop"
    /\ document_ids \in SeqsUpTo(DocIds, MaxBatch)
    /\ bat_i = 1
    /\ report_ids = <<>>
    /\ errors = <<>>
    /\ bat_out = <<>>
    /\ bat_log = <<>>
    /\ EngineIdle
    /\ VerdictIdle
    /\ OrderIdle
    /\ SharedIdle
    /\ ChunkIdle
    /\ SplitIdle
    /\ CapIdle

\* a for loop that gives up at the first document that fails
StopAfterError(i, ids) == Len(ids) + 1

\* compliance_pipeline.py 117, 124-126: the except clause ends the
\* iteration and the for loop goes on with the next id
NextAfterError(i, ids) == i + 1

\* compliance_pipeline.py 117-123: self.run returns a report; the run made
\* as the k-th call has the fresh report id k
BatRunReturns ==
    /\ bat_pc = "loop"
    /\ bat_i <= Len(document_ids)
    /\ \E rid \in {Len(bat_log) + 1} :
         /\ report_ids' = Append(report_ids, rid)
         /\ bat_log' = Append(bat_log, [document_id |-> document_ids[bat_i],
                                        ok |-> TRUE, report_id |-> rid])
    /\ bat_i' = bat_i + 1
    /\ UNCHANGED <<bat_pc, document_ids, errors, bat_out>>
    /\ UNCHANGED notBatch

\* compliance_pipeline.py 117-126: self.run raises an Exception
BatRunRaises ==
    /\ bat_pc = "loop"
    /\ bat_i <= Len(document_ids)
    /\ \E e \in BatchErrors :
         errors' = Append(errors, [document_id |-> document_ids[bat_i],
                                   error |-> e])
    /\ bat_log' = Append(bat_log, [document_id |-> document_ids[bat_i],
                                   ok |-> FALSE, report_id |-> 0])
    /\ bat_i' = NextAfterError(bat_i, document_ids)
    /\ UNCHANGED <<bat_pc, document_ids, report_ids, bat_out>>
    /\ UNCHANGED notBatch

\* compliance_pipeline.py 128-136: the summary dict
BatReturn ==
    /\ bat_pc = "loop"
    /\ bat_i > Len(document_ids)
    /\ bat_pc' = "returned"
    /\ bat_out' = [total |-> Len(document_ids),
                   completed |-> Len(report_ids),
                   failed |-> Len(errors),
                   report_ids |-> report_ids,
                   errors |-> errors]
    /\ UNCHANGED <<document_ids, bat_i, report_ids, errors, bat_log>>
    /\ UNCHANGED notBatch

NextBatch ==
    \/ BatRunReturns
    \/ BatRunRaises
    \/ BatReturn

SpecBatch == InitBatch /\ [][NextBatch]_vars

\* the calls of self.run that returned (TRUE) or raised (FALSE)
BatCalls(ok) == SelectSeq(bat_log, LAMBDA c : c.ok = ok)

\* C16: run_batch calls self.run once per input id, in input order, also
\* after a failure; the dict it returns has total = completed + failed =
\* number of input ids, report_ids holds the report ids of the runs that
\* returned, in input order, and errors holds the ids of the runs that
\* raised, in input order.
C16_BatchAccounts ==
    /\ \A k \in DOMAIN bat_log :
         k <= Len(document_ids) /\ bat_log[k].document_id = document_ids[k]
    /\ bat_pc = "returned" =>
         /\ Len(bat_log) = Len(document_ids)
         /\ bat_out.total = Len(document_ids)
         /\ bat_out.total = bat_out.completed + bat_out.failed
         /\ bat_out.completed = Len(bat_out.report_ids)
         /\ bat_out.failed = Len(bat_out.errors)
         /\ bat_out.report_ids
              = [k \in DOMAIN BatCalls(TRUE) |-> BatCalls(TRUE)[k].report_id]
         /\ [k \in DOMAIN bat_out.errors |-> bat_out.errors[k].document_id]
              = [k \in DOMAIN BatCalls(FALSE) |->
                   BatCalls(FALSE)[k].document_id]

\* C16 witness: a batch of three ids has returned; the first run raised
\* and the two after it returned reports
C16_Witness ==
    /\ bat_pc = "returned"
    /\ Len(document_ids) = 3
    /\ ~bat_log[1].ok
    /\ bat_log[2].ok
    /\ bat_log[3].ok

(***************************************************************************)
(* SpecChunk: ComplianceChunker.chunk_processed_document (utils/chunking.py*)
(* 89-193) called twice on the same document, over every document of up   *)
(* to MaxElements elements and two chunker configurations.  Texts are      *)
(* strings; the splitter is the built-in character splitter (the import of *)
(* chunking.py 27-32 failed, _HAS_LANGCHAIN is False).                     *)
(***************************************************************************)
notChunk == <<engineVars, verdictVars, orderVars, sharedVars, batchVars,
              splitVars, capVars>>

\* models/document.py 75-85: the fields of a ProcessedElement the chunker
\* reads; html is "" for Python's None
Element(type, text, html) ==
    [element_id |-> "", element_type |-> type, text |-> text, html |-> html]

\* a text of MaxTextLen characters, all different
LongText == SubSeq("abcdefghijklmnop", 1, MaxTextLen)

ElementKinds ==
    { Element("Title", "T", ""), Element("Header", "H", ""),
      Element("Header", "", ""), Element("PageBreak", "", ""),
      Element("Table", "", "<table>"), Element("Table", " ", ""),
      Element("Table", "ab", ""), Element("Table", LongText, "<table>"),
      Element("NarrativeText", " ", ""), Element("NarrativeText", "ab", ""),
      Element("NarrativeText", LongText, "") }

\* the elements of a document carry the ids e1, e2, ... of the extractor
WithIds(kinds) ==
    [k \in DOMAIN kinds |->
        [kinds[k] EXCEPT !.element_id = "e" \o ToString(k)]]

ChunkDocs ==
    { [document_id |-> "d1", elements |-> WithIds(kinds)] :
        kinds \in SeqsUpTo(ElementKinds, MaxElements) }

\* chunking.py 68-74: (chunk_size, chunk_overlap) of the chunker
ChunkConfigs == { <<4, 2>>, <<16, 3>> }

\* chunking.py 125: not element.text.strip()
IsBlankText(t) == \A i \in 1..Len(t) : SubSeq(t, i, i) \in {" ", "\n", "\t"}

\* a chunker that also passes over every Table element
SkippedWithTables(element) ==
    \/ element.element_type \in {"PageBreak", "Table"}
    \/ IsBlankText(element.text)

\* chunking.py 124-126: page breaks and empty elements are skipped
Skipped(element) ==
    \/ element.element_type = "PageBreak"
    \/ IsBlankText(element.text)

\* a section path that a Title extends instead of resetting
PathNeverReset(current, element) == Append(current, element.text)

\* chunking.py 199-210
_update_section_path(current, element) ==
    IF element.element_type = "Title" THEN <<element.text>>
    ELSE Append(current, element.text)

\* chunking.py 133: " > ".join(section_path) if section_path else ""
RECURSIVE JoinPath(_)
JoinPath(path) ==
    IF path = <<>> THEN ""
    ELSE IF Len(path) = 1 THEN path[1]
    ELSE path[1] \o " > " \o JoinPath(Tail(path))

\* chunking.py 45-48: the while loop of _simple_split from position start;
\* text[start:end] stops at the end of the text
RECURSIVE SplitFrom(_, _, _, _)
SplitFrom(text, start, size, overlap) ==
    IF start >= Len(text) THEN <<>>
    ELSE <<SubSeq(text, start + 1, Min(start + size, Len(text)))>>
         \o SplitFrom(text, start + size - overlap, size, overlap)

\* chunking.py 39-49
_simple_split(text, size, overlap) ==
    IF Len(text) <= size THEN <<text>>
    ELSE SplitFrom(text, 0, size, overlap)

\* chunking.py 212-216, with self._splitter None
_split_text(text, size, overlap) == _simple_split(text, size, overlap)

\* an id made of the element's text instead of its element id
ChunkIdFromText(doc_id, element, j) ==
    IF element.element_type = "Table"
    THEN doc_id \o "_tbl_" \o element.text
    ELSE IF j = -1 THEN doc_id \o "_" \o element.text
    ELSE doc_id \o "_" \o element.text \o "_c" \o ToString(j)

\* chunking.py 154, 171, 181: the three f-strings; j = -1 for a body
\* element that was not split
ChunkId(doc_id, element, j) ==
    IF element.element_type = "Table"
    THEN doc_id \o "_tbl_" \o element.element_id
    ELSE IF j = -1 THEN doc_id \o "_" \o element.element_id
    ELSE doc_id \o "_" \o element.element_id \o "_c" \o ToString(j)

\* chunking.py 128-136, 147-157, 169-184: one chunk dict.  has_table FALSE,
\* table_html "" and chunk_index -1 stand for a metadata dict without the
\* key; src is history, the position of the element the chunk was made of
Chunk(element, k, j, text, table) ==
    [id |-> ChunkId(chk_doc.document_id, element, j),
     text |-> text,
     element_type |-> element.element_type,
     section_path |-> JoinPath(section_path),
     section_header |-> current_header,
     has_table |-> table,
     table_html |-> IF table THEN element.html ELSE "",
     chunk_index |-> j,
     src |-> k]

\* chunks.append at the front of the list
EmitFirst(out, new) == new \o out

\* chunking.py 152, 169, 179: chunks.append
Emit(out, new) == out \o new

\* chunking.py 142-146
TableText(header, text) ==
    IF header # "" THEN "[Table in section: " \o header \o "]\n" \o text
    ELSE text

\* chunking.py 162-166
TextWithCtx(header, text) ==
    IF header # "" THEN "[Section: " \o header \o "]\n" \o text
    ELSE text

InitChunk ==
    /\ chk_pc = "loop"
    /\ chk_doc \in ChunkDocs
    /\ \E cfg \in ChunkConfigs :
         /\ _chunk_size = cfg[1]
         /\ _chunk_overlap = cfg[2]
    /\ chk_i = 1
    /\ chunks = <<>>
    /\ section_path = <<>>
    /\ current_header = ""
    /\ chk_call = 1
    /\ chk_first = <<>>
    /\ EngineIdle
    /\ VerdictIdle
    /\ OrderIdle
    /\ SharedIdle
    /\ BatchIdle
    /\ SplitIdle
    /\ CapIdle

\* the element of the current iteration
InLoop == chk_pc = "loop" /\ chk_i <= Len(chk_doc.elements)

\* chunking.py 117-122: a Title or Header updates the context
ChkHeader ==
    /\ InLoop
    /\ \E element \in {chk_doc.elements[chk_i]} :
         /\ element.element_type \in {"Title", "Header"}
         /\ current_header' = element.text
         /\ section_path' = _update_section_path(section_path, element)
    /\ chk_i' = chk_i + 1
    /\ UNCHANGED <<chk_pc, chk_doc, _chunk_size, _chunk_overlap, chunks,
                   chk_call, chk_first>>
    /\ UNCHANGED notChunk

\* chunking.py 124-126: continue
ChkSkip ==
    /\ InLoop
    /\ \E element \in {chk_doc.elements[chk_i]} :
         /\ element.element_type \notin {"Title", "Header"}
         /\ Skipped(element)
    /\ chk_i' = chk_i + 1
    /\ UNCHANGED <<chk_pc, chk_doc, _chunk_size, _chunk_overlap, chunks,
                   section_path, current_header, chk_call, chk_first>>
    /\ UNCHANGED notChunk

\* chunking.py 140-159: a table is one chunk
ChkTable ==
    /\ InLoop
    /\ \E element \in {chk_doc.elements[chk_i]} :
         /\ element.element_type = "Table"
         /\ ~Skipped(element)
         /\ chunks' = Emit(chunks,
                <<Chunk(element, chk_i, -1,
                        TableText(current_header, element.text), TRUE)>>)
    /\ chk_i' = chk_i + 1
    /\ UNCHANGED <<chk_pc, chk_doc, _chunk_size, _chunk_overlap,
                   section_path, current_header, chk_call, chk_first>>
    /\ UNCHANGED notChunk

\* chunking.py 161-175: body text within the size budget
ChkBodyWhole ==
    /\ InLoop
    /\ \E element \in {chk_doc.elements[chk_i]} :
         /\ element.element_type \notin {"Title", "Header", "Table"}
         /\ ~Skipped(element)
         /\ \E text_with_ctx \in {TextWithCtx(current_header, element.text)} :
              /\ Len(text_with_ctx) <= _chunk_size
              /\ chunks' = Emit(chunks,
                     <<Chunk(element, chk_i, -1, text_with_ctx, FALSE)>>)
    /\ chk_i' = chk_i + 1
    /\ UNCHANGED <<chk_pc, chk_doc, _chunk_size, _chunk_overlap,
                   section_path, current_header, chk_call, chk_first>>
    /\ UNCHANGED notChunk

\* chunking.py 161-168, 176-185: body text over the budget is split
ChkBodySplit ==
    /\ InLoop
    /\ \E element \in {chk_doc.elements[chk_i]} :
         /\ element.element_type \notin {"Title", "Header", "Table"}
         /\ ~Skipped(element)
         /\ \E text_with_ctx \in {TextWithCtx(current_header, element.text)} :
              /\ Len(text_with_ctx) > _chunk_size
              /\ \E sub_chunks \in {_split_text(text_with_ctx, _chunk_size,
                                                _chunk_overlap)} :
                   chunks' = Emit(chunks,
                       [j \in DOMAIN sub_chunks |->
                           Chunk(element, chk_i, j - 1, sub_chunks[j], FALSE)])
    /\ chk_i' = chk_i + 1
    /\ UNCHANGED <<chk_pc, chk_doc, _chunk_size, _chunk_overlap,
                   section_path, current_header, chk_call, chk_first>>
    /\ UNCHANGED notChunk

\* chunking.py 193: return chunks; the caller then chunks the same document
\* once more
ChkReturn ==
    /\ chk_pc = "loop"
    /\ chk_i > Len(chk_doc.elements)
    /\ IF chk_call = 1
       THEN /\ chk_first' = chunks
            /\ chk_call' = 2
            /\ chk_i' = 1
            /\ chunks' = <<>>
            /\ section_path' = <<>>
            /\ current_header' = ""
            /\ UNCHANGED chk_pc
       ELSE /\ chk_pc' = "done"
            /\ UNCHANGED <<chk_i, chunks, section_path, current_header,
                           chk_call, chk_first>>
    /\ UNCHANGED <<chk_doc, _chunk_size, _chunk_overlap>>
    /\ UNCHANGED notChunk

NextChunk ==
    \/ ChkHeader
    \/ ChkSkip
    \/ ChkTable
    \/ ChkBodyWhole
    \/ ChkBodySplit
    \/ ChkReturn

SpecChunk == InitChunk /\ [][NextChunk]_vars

\* a call of chunk_processed_document has returned
ChunkReturned == chk_pc = "done"

\* the positions of the Table elements of the document
TableElements ==
    { k \in DOMAIN chk_doc.elements :
        chk_doc.elements[k].element_type = "Table" }

\* the chunks of the returned list made of element k
ChunksOf(k) == { i \in DOMAIN chunks : chunks[i].src = k }

\* the element is represented by exactly one chunk: tagged has_table, with
\* the table id, holding the whole text of the table
OneTableChunk(k) ==
    /\ Cardinality(ChunksOf(k)) = 1
    /\ \A i \in ChunksOf(k) :
         /\ chunks[i].has_table
         /\ chunks[i].chunk_index = -1
         /\ chunks[i].id = chk_doc.document_id \o "_tbl_"
                             \o chk_doc.elements[k].element_id
         /\ \E n \in 0..Len(chunks[i].text) :
              SubSeq(chunks[i].text, n + 1, Len(chunks[i].text))
                = chk_doc.elements[k].text
         /\ Len(chunks[i].text) >= Len(chk_doc.elements[k].text)

\* C17 (as claimed): every Table element of the document yields exactly
\* one chunk, with its whole text, whatever its length.
C17_EveryTableOneChunk ==
    ChunkReturned => \A k \in TableElements : OneTableChunk(k)

\* C17 (amended): every Table element whose text is not blank yields
\* exactly one chunk (has_table, the table id, the whole text whatever its
\* length); a Table element whose text is empty or whitespace yields no
\* chunk.
C17_NonBlankTableOneChunk ==
    ChunkReturned =>
        \A k \in TableElements :
            IF IsBlankText(chk_doc.elements[k].text)
            THEN ChunksOf(k) = {}
            ELSE OneTableChunk(k)

\* C17 witness: a table longer than the size budget, under a header, came
\* out as one chunk
C17_Witness ==
    /\ ChunkReturned
    /\ \E k \in TableElements :
         /\ Len(chk_doc.elements[k].text) > _chunk_size
         /\ OneTableChunk(k)
         /\ \E i \in ChunksOf(k) : chunks[i].section_header # ""

\* chunks i and i + 1 are consecutive sub-chunks of one element
AdjacentSubChunks(i) ==
    /\ i + 1 \in DOMAIN chunks
    /\ chunks[i].src = chunks[i + 1].src
    /\ chunks[i].chunk_index >= 0

\* C18: the last chunk_overlap characters of every sub-chunk are the first
\* chunk_overlap characters of the sub-chunk after it, the last pair of an
\* element included.
C18_ExactOverlap ==
    \A i \in DOMAIN chunks :
        AdjacentSubChunks(i) =>
            /\ Len(chunks[i].text) >= _chunk_overlap
            /\ Len(chunks[i + 1].text) >= _chunk_overlap
            /\ SubSeq(chunks[i].text,
                      Len(chunks[i].text) - _chunk_overlap + 1,
                      Len(chunks[i].text))
                 = SubSeq(chunks[i + 1].text, 1, _chunk_overlap)

\* the ids of a list of chunks
Ids(list) == [i \in DOMAIN list |-> list[i].id]

\* C19: the second call on the same document returns the same sequence of
\* chunk ids as the first, and every id is made of the document id, the
\* element id, the table marker and the sub-chunk index alone.
C19_SameIdsTwice ==
    /\ ChunkReturned => Ids(chunks) = Ids(chk_first)
    /\ \A i \in DOMAIN chunks :
         chunks[i].id =
            chk_doc.document_id
            \o (IF chunks[i].has_table THEN "_tbl_" ELSE "_")
            \o chk_doc.elements[chunks[i].src].element_id
            \o (IF chunks[i].chunk_index = -1 THEN ""
                ELSE "_c" \o ToString(chunks[i].chunk_index))

\* C19 witness: both calls returned three or more chunks: a table, a whole
\* body element or a split one
C19_Witness ==
    /\ ChunkReturned
    /\ Len(chk_first) >= 3
    /\ \E i \in DOMAIN chunks : chunks[i].has_table
    /\ \E i \in DOMAIN chunks : chunks[i].chunk_index >= 1

\* C20: the chunks come in the order of their elements, and the sub-chunks
\* of one element are next to each other with chunk_index 0, 1, 2, ...
C20_ElementOrderKept ==
    /\ \A i, j \in DOMAIN chunks :
         i < j => chunks[i].src <= chunks[j].src
    /\ \A i \in DOMAIN chunks :
         /\ (i + 1 \in DOMAIN chunks /\ chunks[i].src = chunks[i + 1].src)
              => chunks[i + 1].chunk_index = chunks[i].chunk_index + 1
         /\ (chunks[i].chunk_index >= 0
               /\ (i = 1 \/ chunks[i - 1].src # chunks[i].src))
              => chunks[i].chunk_index = 0
         /\ (chunks[i].chunk_index = -1 /\ i + 1 \in DOMAIN chunks)
              => chunks[i].src < chunks[i + 1].src

\* C20 witness: the returned list holds the sub-chunks of a split element
\* between the chunks of an earlier and of a later element
C20_Witness ==
    /\ ChunkReturned
    /\ \E i, j, l \in DOMAIN chunks :
         /\ i < j /\ j < l
         /\ chunks[i].src < chunks[j].src
         /\ chunks[j].src < chunks[l].src
         /\ chunks[j].chunk_index >= 1

\* the position of the last Title among the first n elements, 0 if none
LastTitle(n) ==
    IF \E k \in 1..n : chk_doc.elements[k].element_type = "Title"
    THEN CHOOSE k \in 1..n :
            /\ chk_doc.elements[k].element_type = "Title"
            /\ \A l \in (k + 1)..n : chk_doc.elements[l].element_type # "Title"
    ELSE 0

\* the text of the last Title among the first n elements, then the texts
\* of the Headers after it, in order
PathAfter(n) ==
    LET t == LastTitle(n)
        later == SelectSeq(SubSeq(chk_doc.elements, t + 1, n),
                           LAMBDA e : e.element_type = "Header")
    IN (IF t = 0 THEN <<>> ELSE <<chk_doc.elements[t].text>>)
       \o [i \in DOMAIN later |-> later[i].text]

\* the text of the last Title or Header among the first n elements
HeaderAfter(n) ==
    LET heads == SelectSeq(SubSeq(chk_doc.elements, 1, n),
                           LAMBDA e : e.element_type \in {"Title", "Header"})
    IN IF heads = <<>> THEN "" ELSE heads[Len(heads)].text

\* C25: after any prefix of the elements the running section path is the
\* text of the last Title followed by the texts of the Headers since, and
\* the running header is the text of the last Title or Header; every chunk
\* carries the path and header of the elements before its own, and no chunk
\* is made of a Title, a Header, a page break or an element without text.
C25_SectionContext ==
    chk_pc \in {"loop", "done"} =>
        /\ section_path = PathAfter(chk_i - 1)
        /\ current_header = HeaderAfter(chk_i - 1)
        /\ \A i \in DOMAIN chunks :
             /\ chunks[i].section_path = JoinPath(PathAfter(chunks[i].src))
             /\ chunks[i].section_header = HeaderAfter(chunks[i].src)
             /\ chk_doc.elements[chunks[i].src].element_type
                  \notin {"Title", "Header", "PageBreak"}
             /\ ~IsBlankText(chk_doc.elements[chunks[i].src].text)

\* C25 witness: a chunk made after a Title and a Header carries both in
\* its section path and the Header as its section header
C25_Witness ==
    /\ ChunkReturned
    /\ \E i \in DOMAIN chunks :
         /\ chunks[i].section_path = "T > H"
         /\ chunks[i].section_header = "H"

(***************************************************************************)
(* SpecSplit: _simple_split (utils/chunking.py 39-49) one iteration of its *)
(* while loop at a time, for every text of up to MaxTextLen characters and *)
(* every size and overlap the constructor hands over: ComplianceChunker's  *)
(* __init__ (68-83) stores any two integers.  The loop has no suspension   *)
(* point, so an enabled step is taken (weak fairness).  A list of PieceCap *)
(* pieces is longer than any text of the model can give when start         *)
(* advances; the loop is not followed further.                             *)
(***************************************************************************)
notSplit == <<engineVars, verdictVars, orderVars, sharedVars, batchVars,
              chunkVars, capVars>>

PieceCap == MaxTextLen + 2

\* Python's slice bounds: a negative index counts from the end, and both
\* ends are clipped to the text
SliceBound(i, n) == IF i < 0 THEN Max(i + n, 0) ELSE Min(i, n)

\* text[a:b], with the positions it covers
PySlice(text, a, b) ==
    LET from == SliceBound(a, Len(text))
        to == Max(SliceBound(b, Len(text)), from)
    IN [text |-> SubSeq(text, from + 1, to), from |-> from, to |-> to]

InitSplit ==
    /\ spl_pc = "call"
    /\ spl_text \in {SubSeq("abcdefghijklmnop", 1, n) : n \in 0..MaxTextLen}
    /\ spl_size \in 1..MaxSplitSize
    /\ spl_overlap \in 0..(MaxSplitSize + 1)
    /\ spl_start = 0
    /\ spl_chunks = <<>>
    /\ EngineIdle
    /\ VerdictIdle
    /\ OrderIdle
    /\ SharedIdle
    /\ BatchIdle
    /\ ChunkIdle
    /\ CapIdle

\* chunking.py 41-42: if len(text) <= size: return [text]
SplitShort ==
    /\ spl_pc = "call"
    /\ Len(spl_text) <= spl_size
    /\ spl_chunks' = <<PySlice(spl_text, 0, Len(spl_text))>>
    /\ spl_pc' = "done"
    /\ UNCHANGED <<spl_text, spl_size, spl_overlap, spl_start>>
    /\ UNCHANGED notSplit

\* chunking.py 43-44: chunks = []; start = 0
SplitEnter ==
    /\ spl_pc = "call"
    /\ Len(spl_text) > spl_size
    /\ spl_chunks' = <<>>
    /\ spl_start' = 0
    /\ spl_pc' = "loop"
    /\ UNCHANGED <<spl_text, spl_size, spl_overlap>>
    /\ UNCHANGED notSplit

\* chunking.py 45-48: one turn of the while loop
SplitStep ==
    /\ spl_pc = "loop"
    /\ spl_start < Len(spl_text)
    /\ Len(spl_chunks) < PieceCap
    /\ spl_chunks' = Append(spl_chunks,
                            PySlice(spl_text, spl_start, spl_start + spl_size))
    /\ spl_start' = (spl_start + spl_size) - spl_overlap
    /\ UNCHANGED <<spl_pc, spl_text, spl_size, spl_overlap>>
    /\ UNCHANGED notSplit

\* chunking.py 45, 49: the loop condition fails; return chunks
SplitReturn ==
    /\ spl_pc = "loop"
    /\ spl_start >= Len(spl_text)
    /\ spl_pc' = "done"
    /\ UNCHANGED <<spl_text, spl_size, spl_overlap, spl_start, spl_chunks>>
    /\ UNCHANGED notSplit

NextSplit ==
    \/ SplitShort
    \/ SplitEnter
    \/ SplitStep
    \/ SplitReturn

SpecSplit == InitSplit /\ [][NextSplit]_vars /\ WF_vars(NextSplit)

\* every piece after the first reaches beyond the end of the piece before
PiecesAdvance ==
    \A j \in DOMAIN spl_chunks :
        j > 1 => spl_chunks[j].to > spl_chunks[j - 1].to

\* C27: _simple_split returns for every text, size and overlap, and every
\* piece after the first holds a character beyond the end of the piece
\* before it.
C27_SplitTerminates ==
    /\ <>(spl_pc = "done")
    /\ [](Len(spl_text) > spl_size => PiecesAdvance)

(***************************************************************************)
(* SpecCap: one pass of the loop over rule-sets (compliance_engine.py      *)
(* 181-221) and the count of Phase 5 (235, 272), for retrieval outputs of  *)
(* up to MaxRetrieved rules, more than _MAX_RULES_PER_FRAMEWORK.  The      *)
(* retrieval output is sorted by distance, as line 633 leaves it; the      *)
(* outcomes of the tasks are taken in the order asyncio.gather lists them, *)
(* each a ComplianceCheckResult (TRUE) or an exception (FALSE).            *)
(***************************************************************************)
notCap == <<engineVars, verdictVars, orderVars, sharedVars, batchVars,
            chunkVars, splitVars>>

\* the k-th rule of a retrieval output; two rules share each distance
RetrievedRule(k) == [rule_id |-> k, distance |-> k \div 2]

InitCap ==
    /\ cap_pc = "retrieved"
    /\ \E n \in 0..MaxRetrieved :
         retrieved_rules = [k \in 1..n |-> RetrievedRule(k)]
    /\ cap_rules = <<>>
    /\ cap_results = <<>>
    /\ cap_all = <<>>
    /\ total_rules_checked = 0
    /\ EngineIdle
    /\ VerdictIdle
    /\ OrderIdle
    /\ SharedIdle
    /\ BatchIdle
    /\ ChunkIdle
    /\ SplitIdle

\* compliance_engine.py 195-196: if not retrieved_rules: continue
CapNoRules ==
    /\ cap_pc = "retrieved"
    /\ retrieved_rules = <<>>
    /\ cap_pc' = "done"
    /\ UNCHANGED <<retrieved_rules, cap_rules, cap_results, cap_all,
                   total_rules_checked>>
    /\ UNCHANGED notCap

\* compliance_engine.py 199-215: the tasks of the rules to check
CapSubmit ==
    /\ cap_pc = "retrieved"
    /\ retrieved_rules # <<>>
    /\ cap_rules' = TakeRules(retrieved_rules)
    /\ cap_pc' = "gather"
    /\ UNCHANGED <<retrieved_rules, cap_results, cap_all,
                   total_rules_checked>>
    /\ UNCHANGED notCap

\* compliance_engine.py 216: the outcome of the next task in gather's list
CapTaskEnds ==
    /\ cap_pc = "gather"
    /\ Len(cap_results) < Len(cap_rules)
    /\ \E is_result \in BOOLEAN :
         cap_results' = Append(cap_results, is_result)
    /\ UNCHANGED <<cap_pc, retrieved_rules, cap_rules, cap_all,
                   total_rules_checked>>
    /\ UNCHANGED notCap

\* compliance_engine.py 217-221, 235, 272: the results are appended and
\* counted
CapCollect ==
    /\ cap_pc = "gather"
    /\ Len(cap_results) = Len(cap_rules)
    /\ \E kept \in {SelectSeq([k \in DOMAIN cap_rules |->
                                 [rule_id |-> cap_rules[k].rule_id,
                                  is_result |-> cap_results[k]]],
                              LAMBDA r : r.is_result)} :
         /\ cap_all' = [k \in DOMAIN kept |-> kept[k].rule_id]
         /\ total_rules_checked' = Len(kept)
    /\ cap_pc' = "done"
    /\ UNCHANGED <<retrieved_rules, cap_rules, cap_results>>
    /\ UNCHANGED notCap

NextCap ==
    \/ CapNoRules
    \/ CapSubmit
    \/ CapTaskEnds
    \/ CapCollect

SpecCap == InitCap /\ [][NextCap]_vars

\* C29: at most 15 rules of a rule-set are submitted, they are the first
\* 15 of the retrieval output (none after them has a lower distance), and
\* a rule after the 15th has no result and is not counted in
\* total_rules_checked.
C29_FirstFifteenOnly ==
    cap_pc \in {"gather", "done"} =>
        /\ Len(cap_rules) <= 15
        /\ Len(cap_rules) = Min(Len(retrieved_rules), 15)
        /\ \A k \in DOMAIN cap_rules : cap_rules[k] = retrieved_rules[k]
        /\ \A k \in DOMAIN cap_rules, l \in DOMAIN retrieved_rules :
             l > 15 => cap_rules[k].distance <= retrieved_rules[l].distance
        /\ Len(cap_results) <= 15
        /\ \A i \in DOMAIN cap_all :
             \E k \in 1..Min(Len(retrieved_rules), 15) :
                cap_all[i] = retrieved_rules[k].rule_id
        /\ total_rules_checked = Len(cap_all)
        /\ total_rules_checked <= 15

\* C29 witness: more than 15 rules were retrieved, and the pass ended with
\* 15 results
C29_Witness ==
    /\ cap_pc = "done"
    /\ Len(retrieved_rules) > 15
    /\ Len(cap_all) = 15
    /\ total_rules_checked = 15

====
